---------------------------- MODULE Spec2Model ----------------------------
(***************************************************************************)
(* Model of the HTTP client resilience layer of src/Services/apiClient.js: *)
(* the request interceptor (bearer attachment), the response interceptor   *)
(* (network errors, 401-triggered token refresh with request queueing,     *)
(* status-to-notification mapping) and tokenManager; and of the resource   *)
(* gateways built on it, attendanceAPI and eventsAPI (see "gateways").     *)
(*                                                                         *)
(* Granularity.  JavaScript runs one event-loop task at a time and drains  *)
(* every promise continuation (microtask) the task schedules before the    *)
(* next network event is delivered.  One action of this model is therefore *)
(* one task together with its microtasks: the arrival of one response,     *)
(* the complete run of the interceptor it triggers, and every resubmission *)
(* that run causes up to the moment the new request is handed to the       *)
(* network.  The only suspension points inside the response interceptor    *)
(* are the refresh call (line 153) and the resubmissions (lines 137, 179). *)
(***************************************************************************)
EXTENDS Integers, Sequences, FiniteSets

\* ------------------------------------------------------------- bounds ---
\* Number of request slots that can be outstanding at the same time.  A slot
\* whose request has settled is reused by the next request, so the number
\* of requests issued over a behaviour is unbounded.
NumReqs == 3
\* Number of distinct access-token values the backend may hand out.
NumTokens == 2

\* Number of request slots of the specification that runs the handlers over
\* every status and error code (StatusSpec).
NumStatusReqs == 2

Reqs == 1..NumReqs
StatusReqs == 1..NumStatusReqs

\* ------------------------------------------------------------- values ---
NoTok == <<"none", 0>>
AccessTokens == {<<"access", i>> : i \in 1..NumTokens}
RefreshTokens == {<<"refresh", 1>>}

\* error.code of an axios error that carries no response (lines 107-113)
NetCodes == {"ECONNABORTED", "ERR_NETWORK", "ERR_OTHER"}

\* HTTP statuses axios rejects with: the nine of the switch, 401, one 4xx and
\* one 5xx that fall to its default branch, and 304 (outside 2xx, below 400).
StatusCodes == {400, 401, 403, 404, 409, 422, 429, 500, 502, 503, 418, 504, 304}

\* The refresh protocol reads of a response only whether its status is 401
\* (line 130): Spec, which explores the protocol over NumReqs concurrent
\* requests, answers with 401, one other 4xx, one 5xx and one network error;
\* StatusSpec runs the same handlers over every status and error code.
ProtocolStatuses == {401, 403, 500}
ProtocolNetCodes == {"ERR_NETWORK"}

\* What a caller's promise settles with.
Response == [type |-> "response", status |-> 200, code |-> "OK"]
HttpError(status) == [type |-> "http", status |-> status, code |-> "ERR_BAD_RESPONSE"]
NetError(code) == [type |-> "net", status |-> 0, code |-> code]
\* line 184: throw new Error("No refresh token available")
NoRefreshError == [type |-> "Error", status |-> 0, code |-> "No refresh token available"]
NoError == [type |-> "null", status |-> 0, code |-> "null"]

VARIABLES
  token,         \* localStorage["churchAdminToken"]
  refreshToken,  \* localStorage["churchAdminRefreshToken"]
  isRefreshing,  \* line 52
  failedQueue,   \* line 53: the requests whose {resolve, reject} pair is queued
  refreshCall,   \* the axios.post of line 153 while it is in flight
  req,           \* per slot: the request's config and where its promise stands
  ev,            \* what the last task did (effects of the handler that ran)
  gw             \* the gateway call (attendanceAPI, eventsAPI) being made

vars == <<token, refreshToken, isRefreshing, failedQueue, refreshCall, req, ev, gw>>

NoCall == [by |-> 0, bearer |-> NoTok]

\* A slot with no pending request, and the config a new request starts from:
\* no _retry mark, never resubmitted.
\*   pc       free | inflight | queued | refreshing
\*            (free: no request yet, or the slot's request has settled)
\*   retry    originalRequest._retry
\*   resubs   times the request was resubmitted (2 stands for "twice or more")
\*   started  refresh calls this request started (2: "two or more")
\*   queuedFirst  its first 401 arrived while a refresh was in flight
\* The Authorization header a request is sent with is recorded in ev.sent;
\* the config's header is never read before the next send overwrites it
\* (lines 136, 178), so it is not kept between sends.
NewConfig ==
  [pc |-> "free", retry |-> FALSE, resubs |-> 0, started |-> 0,
   queuedFirst |-> FALSE]

\* The caller's promise of request r settles (how: resolve | reject) with val;
\* c is the request's config at that moment.
Settlement(r, how, val, c) ==
  [req |-> r, how |-> how, val |-> val, retry |-> c.retry, resubs |-> c.resubs,
   started |-> c.started, queuedFirst |-> c.queuedFirst]

Sat(n) == IF n < 2 THEN n + 1 ELSE 2

NoEv ==
  [kind |-> "init", req |-> 0, err |-> NoError, toasts |-> <<>>, logouts |-> 0,
   cleared |-> FALSE, sent |-> <<>>, refreshCalls |-> <<>>, drains |-> 0,
   drained |-> <<>>, settled |-> <<>>, newAccessToken |-> NoTok]

\* No gateway call is being made.
NoGateway == [pc |-> "idle"]

Init ==
  /\ token = NoTok
  /\ refreshToken = NoTok
  /\ isRefreshing = FALSE
  /\ failedQueue = <<>>
  /\ refreshCall = NoCall
  /\ req = [r \in Reqs \cup StatusReqs |-> NewConfig]
  /\ ev = NoEv
  /\ gw = NoGateway


\* ------------------------------------------------------ pure helpers ---
\* Mutant: the interceptor attaches nothing and passes the config on.
RequestInterceptor_NoAttach(hdr, stored) == hdr

\* Request interceptor, lines 24-44: a stored token overwrites the config's
\* Authorization header; with no stored token the config is passed on as is.
RequestInterceptor(hdr, stored) == IF stored # NoTok THEN stored ELSE hdr

\* Mutant: the pairs are resolved with no token.
processQueue_NullToken(queue, error, tok) ==
  [outs |-> [i \in 1..Len(queue) |->
               [req |-> queue[i],
                how |-> IF error # NoError THEN "reject" ELSE "resolve",
                tok |-> NoTok,
                err |-> error]],
   queue |-> <<>>]

\* Mutant: the pairs are settled from the last queued to the first.
processQueue_Reversed(queue, error, tok) ==
  [outs |-> [i \in 1..Len(queue) |->
               [req |-> queue[Len(queue) + 1 - i],
                how |-> IF error # NoError THEN "reject" ELSE "resolve",
                tok |-> tok,
                err |-> error]],
   queue |-> <<>>]

\* Mutant: the pairs are settled but the queue is not replaced by [].
processQueue_KeepQueue(queue, error, tok) ==
  [outs |-> [i \in 1..Len(queue) |->
               [req |-> queue[i],
                how |-> IF error # NoError THEN "reject" ELSE "resolve",
                tok |-> tok,
                err |-> error]],
   queue |-> queue]

\* Mutant: the loop stops before the last queued pair.
processQueue_SkipLast(queue, error, tok) ==
  [outs |-> [i \in 1..(Len(queue) - 1) |->
               [req |-> queue[i],
                how |-> IF error # NoError THEN "reject" ELSE "resolve",
                tok |-> tok,
                err |-> error]],
   queue |-> <<>>]

\* processQueue, lines 55-65: one call of reject(error) or resolve(token) per
\* queued pair, in queue order, and then the queue is replaced by [].
processQueue(queue, error, tok) ==
  [outs |-> [i \in 1..Len(queue) |->
               [req |-> queue[i],
                how |-> IF error # NoError THEN "reject" ELSE "resolve",
                tok |-> tok,
                err |-> error]],
   queue |-> <<>>]

\* Mutant: only the refresh-token entry is removed.
removeItem_KeepAccess(stored) == IF stored[1] = "access" THEN stored ELSE NoTok

\* Mutant: the entry is left in storage.
removeItem_Keep(stored) == stored

\* localStorage.removeItem, lines 190-191 and 359-360: the entry is gone.
removeItem(stored) == NoTok

\* Mutant: only the two named error codes produce a toast.
NetworkToasts_NoElse(code) ==
  IF code = "ECONNABORTED" THEN <<[category |-> "timeout", text |-> "Request timeout"]>>
  ELSE IF code = "ERR_NETWORK" THEN <<[category |-> "network", text |-> "Network error"]>>
  ELSE <<>>

\* The toast of the no-response branch, lines 107-113.
NetworkToasts(code) ==
  IF code = "ECONNABORTED" THEN <<[category |-> "timeout", text |-> "Request timeout"]>>
  ELSE IF code = "ERR_NETWORK" THEN <<[category |-> "network", text |-> "Network error"]>>
  ELSE <<[category |-> "network", text |-> "Unable to connect to server"]>>

\* Mutant: the 403 case has no break and falls through into the 404 case.
StatusToasts_FallThrough(status, hasErrors) ==
  CASE status = 400 ->
         IF hasErrors THEN <<[category |-> "badRequest", text |-> "Validation Error"]>>
         ELSE <<[category |-> "badRequest", text |-> "Bad Request"]>>
    [] status = 403 -> <<[category |-> "forbidden", text |-> "Access forbidden"],
                         [category |-> "notFound", text |-> "Resource not found"]>>
    [] status = 404 -> <<[category |-> "notFound", text |-> "Resource not found"]>>
    [] status = 409 -> <<[category |-> "conflict", text |-> "Conflict"]>>
    [] status = 422 -> <<[category |-> "validation", text |-> "Validation Error"]>>
    [] status = 429 -> <<[category |-> "rateLimited", text |-> "Too many requests"]>>
    [] status = 500 -> <<[category |-> "serverError", text |-> "Internal server error"]>>
    [] status = 502 -> <<[category |-> "gatewayError", text |-> "Bad Gateway"]>>
    [] status = 503 -> <<[category |-> "serviceUnavailable", text |-> "Service temporarily unavailable"]>>
    [] OTHER ->
         IF status >= 400 /\ status < 500
         THEN <<[category |-> "clientError", text |-> "errorMessage"]>>
         ELSE IF status >= 500
         THEN <<[category |-> "serverError", text |-> "Server error"]>>
         ELSE <<>>

\* The toasts of the status switch, lines 211-261.  hasErrors: the response
\* body carries an `errors` list (read by the 400 and 422 cases only).
StatusToasts(status, hasErrors) ==
  CASE status = 400 ->
         IF hasErrors THEN <<[category |-> "badRequest", text |-> "Validation Error"]>>
         ELSE <<[category |-> "badRequest", text |-> "Bad Request"]>>
    [] status = 403 -> <<[category |-> "forbidden", text |-> "Access forbidden"]>>
    [] status = 404 -> <<[category |-> "notFound", text |-> "Resource not found"]>>
    [] status = 409 -> <<[category |-> "conflict", text |-> "Conflict"]>>
    [] status = 422 -> <<[category |-> "validation", text |-> "Validation Error"]>>
    [] status = 429 -> <<[category |-> "rateLimited", text |-> "Too many requests"]>>
    [] status = 500 -> <<[category |-> "serverError", text |-> "Internal server error"]>>
    [] status = 502 -> <<[category |-> "gatewayError", text |-> "Bad Gateway"]>>
    [] status = 503 -> <<[category |-> "serviceUnavailable", text |-> "Service temporarily unavailable"]>>
    [] OTHER ->
         IF status >= 400 /\ status < 500
         THEN <<[category |-> "clientError", text |-> "errorMessage"]>>
         ELSE IF status >= 500
         THEN <<[category |-> "serverError", text |-> "Server error"]>>
         ELSE <<>>

\* Mutant: the _retry mark is not consulted.
EntersRefresh_NoGuard(status, retry) == status = 401

\* Line 130: the condition under which a rejected response enters the
\* refresh protocol.
EntersRefresh(status, retry) == status = 401 /\ ~retry

\* apiClient(originalRequest) after the handler set the Authorization header
\* to newHdr (lines 136-137, 178-179): the request interceptor runs again and
\* the request goes back to the network.
Resubmit(c, newHdr, stored) ==
  [c EXCEPT !.pc = "inflight", !.resubs = Sat(@)]

\* The Authorization header that resubmission carries.
ResubmitHeader(newHdr, stored) == RequestInterceptor(newHdr, stored)

\* The continuation of a queued request (lines 135-141) once processQueue
\* has settled its pair with outcome o.
Resume(c, o, stored) ==
  IF o.how = "resolve" THEN Resubmit(c, o.tok, stored)
  ELSE NewConfig

InSeq(x, s) == \E i \in 1..Len(s) : s[i] = x
OutOf(r, outs) == outs[CHOOSE i \in 1..Len(outs) : outs[i].req = r]
Drained(r, outs) == \E i \in 1..Len(outs) : outs[i].req = r

\* The requests handed to the network by the continuations of `outs`
\* (line 137), in the order the continuations run.
RECURSIVE SentBy(_, _, _)
SentBy(outs, reqs, stored) ==
  IF outs = <<>> THEN <<>>
  ELSE LET o == Head(outs) IN
       (IF o.how = "resolve"
        THEN <<[req |-> o.req, hdr |-> ResubmitHeader(o.tok, stored), stored |-> stored]>>
        ELSE <<>>) \o SentBy(Tail(outs), reqs, stored)

\* The callers' promises rejected by the continuations of `outs`.
RECURSIVE RejectedBy(_, _)
RejectedBy(outs, reqs) ==
  IF outs = <<>> THEN <<>>
  ELSE LET o == Head(outs) IN
       (IF o.how = "reject"
        THEN <<Settlement(o.req, "reject", o.err, reqs[o.req])>>
        ELSE <<>>) \o RejectedBy(Tail(outs), reqs)


\* ----------------------------------------------------------- actions ---
\* A caller issues a request through apiClient: a new config, the request
\* interceptor, and the request is on the network.
SendRequest(r) ==
  /\ req[r].pc = "free"
  /\ LET h == RequestInterceptor(NoTok, token) IN
       /\ req' = [req EXCEPT ![r] = [NewConfig EXCEPT !.pc = "inflight"]]
       /\ ev' = [NoEv EXCEPT !.kind = "send", !.req = r,
                             !.sent = <<[req |-> r, hdr |-> h, stored |-> token]>>]
  /\ UNCHANGED <<token, refreshToken, isRefreshing, failedQueue, refreshCall>>
  /\ UNCHANGED gw

\* Lines 69-90: a 2xx response is passed through to the caller.
ResponseSuccess(r) ==
  /\ req[r].pc = "inflight"
  /\ req' = [req EXCEPT ![r] = NewConfig]
  /\ ev' = [NoEv EXCEPT !.kind = "success", !.req = r, !.err = Response,
                        !.settled = <<Settlement(r, "resolve", Response, req[r])>>]
  /\ UNCHANGED <<token, refreshToken, isRefreshing, failedQueue, refreshCall>>
  /\ UNCHANGED gw

\* Mutant: the no-response branch also resets the refresh flag.
ResponseNoResponse_ClearsFlag(r, code) ==
  /\ req[r].pc = "inflight"
  /\ req' = [req EXCEPT ![r] = NewConfig]
  /\ ev' = [NoEv EXCEPT !.kind = "noResponse", !.req = r, !.err = NetError(code),
                        !.toasts = NetworkToasts(code),
                        !.settled = <<Settlement(r, "reject", NetError(code), req[r])>>]
  /\ isRefreshing' = FALSE
  /\ UNCHANGED <<token, refreshToken, failedQueue, refreshCall>>
  /\ UNCHANGED gw

\* Lines 95-116: no response was received (network unreachable, timeout).
ResponseNoResponse(r, code) ==
  /\ req[r].pc = "inflight"
  /\ req' = [req EXCEPT ![r] = NewConfig]
  /\ ev' = [NoEv EXCEPT !.kind = "noResponse", !.req = r, !.err = NetError(code),
                        !.toasts = NetworkToasts(code),
                        !.settled = <<Settlement(r, "reject", NetError(code), req[r])>>]
  /\ UNCHANGED <<token, refreshToken, isRefreshing, failedQueue, refreshCall>>
  /\ UNCHANGED gw

\* Lines 130-142: a 401 that enters the protocol while a refresh is in
\* flight queues the request's continuation; the request stays pending.
Response401Enqueue(r) ==
  /\ req[r].pc = "inflight"
  /\ EntersRefresh(401, req[r].retry)
  /\ isRefreshing
  /\ failedQueue' = Append(failedQueue, r)
  /\ req' = [req EXCEPT ![r].pc = "queued",
                        ![r].queuedFirst = IF req[r].resubs = 0 THEN TRUE ELSE @]
  /\ ev' = [NoEv EXCEPT !.kind = "enqueue", !.req = r, !.err = HttpError(401)]
  /\ UNCHANGED <<token, refreshToken, isRefreshing, refreshCall>>
  /\ UNCHANGED gw

\* Line 145: isRefreshing = true, assigned in the task that found the flag
\* clear at line 131, before the await of line 153.  (The mutant leaves the
\* flag as it was.)
MarkRefreshing_Skip(flag) == flag
MarkRefreshing(flag) == TRUE

\* Mutant: the refresh call goes through apiClient, whose request
\* interceptor overwrites the Authorization header.
RefreshBearer_Intercepted(rt, stored) == RequestInterceptor(rt, stored)

\* Lines 153-164: the refresh call is made with the bare axios, not with
\* apiClient, so no interceptor of apiClient touches it: its Authorization
\* header is the refresh token read at line 148.
RefreshBearer(rt, stored) == rt

\* Lines 144-164: a 401 that enters the protocol while no refresh is in
\* flight and a refresh token is stored: mark the request, set the flag and
\* issue the refresh call with the refresh token as its bearer; the handler
\* is suspended at the await of line 153.
Response401StartRefresh(r) ==
  /\ req[r].pc = "inflight"
  /\ EntersRefresh(401, req[r].retry)
  /\ ~isRefreshing
  /\ refreshToken # NoTok
  /\ isRefreshing' = MarkRefreshing(isRefreshing)
  /\ refreshCall' = [by |-> r, bearer |-> RefreshBearer(refreshToken, token)]
  /\ req' = [req EXCEPT ![r].pc = "refreshing", ![r].retry = TRUE,
                        ![r].started = Sat(@)]
  /\ ev' = [NoEv EXCEPT !.kind = "refreshStart", !.req = r, !.err = HttpError(401),
                        !.refreshCalls = <<RefreshBearer(refreshToken, token)>>]
  /\ UNCHANGED <<token, refreshToken, failedQueue>>
  /\ UNCHANGED gw

\* Lines 200-202: the finally block, isRefreshing = false, run on every way
\* out of the try.  (The mutant leaves the flag as it was.)
ClearRefreshing_Keep(flag) == flag
ClearRefreshing(flag) == FALSE

\* Lines 144-150, 184-202: the same 401 with no refresh token stored.  The
\* handler never suspends: throw, catch (drain, clear, broadcast, redirect,
\* reject), finally.
Response401NoRefreshToken(r) ==
  /\ req[r].pc = "inflight"
  /\ EntersRefresh(401, req[r].retry)
  /\ ~isRefreshing
  /\ refreshToken = NoTok
  /\ LET pq == processQueue(failedQueue, NoRefreshError, NoTok) IN
       /\ failedQueue' = pq.queue
       /\ req' = [q \in DOMAIN req |->
                    IF q = r THEN NewConfig
                    ELSE IF Drained(q, pq.outs) THEN Resume(req[q], OutOf(q, pq.outs), token)
                    ELSE req[q]]
       /\ ev' = [NoEv EXCEPT !.kind = "noRefreshToken", !.req = r,
                             !.err = NoRefreshError,
                             !.drains = 1, !.drained = pq.outs,
                             !.cleared = TRUE, !.logouts = 1,
                             !.sent = SentBy(pq.outs, req, NoTok),
                             !.settled = RejectedBy(pq.outs, req) \o
                                <<Settlement(r, "reject", NoRefreshError,
                                             [req[r] EXCEPT !.retry = TRUE])>>]
  /\ token' = removeItem(token)
  /\ refreshToken' = removeItem(refreshToken)
  /\ isRefreshing' = ClearRefreshing(MarkRefreshing(isRefreshing))
  /\ UNCHANGED refreshCall
  /\ UNCHANGED gw

\* Lines 205-263: every other rejected response: one toast chosen by the
\* status switch, and the original error is rejected to the caller.
ResponseHttpError(r, status, hasErrors) ==
  /\ req[r].pc = "inflight"
  /\ ~EntersRefresh(status, req[r].retry)
  /\ req' = [req EXCEPT ![r] = NewConfig]
  /\ ev' = [NoEv EXCEPT !.kind = "httpError", !.req = r, !.err = HttpError(status),
                        !.toasts = StatusToasts(status, hasErrors),
                        !.settled = <<Settlement(r, "reject", HttpError(status), req[r])>>]
  /\ UNCHANGED <<token, refreshToken, isRefreshing, failedQueue, refreshCall>>
  /\ UNCHANGED gw


\* Errors the refresh call itself can be rejected with (a timeout of its own
\* 10 s budget, a network failure, a non-2xx status).
RefreshErrors ==
  {NetError("ECONNABORTED"), NetError("ERR_NETWORK"), HttpError(401), HttpError(500)}

\* Mutant: the handler returns without resubmitting the original request.
RetryOriginal_NoResubmit(c, newAccessToken, stored) == NewConfig

\* Lines 178-179: the request that started the refresh gets the new token
\* and is resubmitted; the promise of that resubmission is what the handler
\* returns.
RetryOriginal(c, newAccessToken, stored) == Resubmit(c, newAccessToken, stored)

\* Lines 166-181, 200-202: the refresh call returned 2xx with an access token
\* t in its payload.
RefreshSucceeds(t) ==
  /\ refreshCall # NoCall
  /\ LET by == refreshCall.by
         pq == processQueue(failedQueue, NoError, t)
     IN
       /\ token' = t
       /\ refreshToken' = refreshCall.bearer
       /\ failedQueue' = pq.queue
       /\ req' = [q \in DOMAIN req |->
                    IF q = by THEN RetryOriginal(req[q], t, t)
                    ELSE IF Drained(q, pq.outs) THEN Resume(req[q], OutOf(q, pq.outs), t)
                    ELSE req[q]]
       /\ ev' = [NoEv EXCEPT !.kind = "refreshOk", !.req = by,
                             !.newAccessToken = t,
                             !.drains = 1, !.drained = pq.outs,
                             !.sent = (IF req'[by].pc = "inflight"
                                       THEN <<[req |-> by, hdr |-> ResubmitHeader(t, t),
                                               stored |-> t]>>
                                       ELSE <<>>) \o SentBy(pq.outs, req, t),
                             !.settled = RejectedBy(pq.outs, req)]
  /\ isRefreshing' = ClearRefreshing(isRefreshing)
  /\ refreshCall' = NoCall
  /\ UNCHANGED gw

\* Lines 185-202: the catch block and the finally, with refreshError = e.
\* The navigation to /login of lines 195-197 is not modelled: the handler
\* runs to its end before the page is left.
RefreshFailure(e) ==
  /\ refreshCall # NoCall
  /\ LET by == refreshCall.by
         pq == processQueue(failedQueue, e, NoTok)
     IN
       /\ failedQueue' = pq.queue
       /\ req' = [q \in DOMAIN req |->
                    IF q = by THEN NewConfig
                    ELSE IF Drained(q, pq.outs) THEN Resume(req[q], OutOf(q, pq.outs), NoTok)
                    ELSE req[q]]
       /\ ev' = [NoEv EXCEPT !.kind = "refreshFail", !.req = by, !.err = e,
                             !.drains = 1, !.drained = pq.outs,
                             !.cleared = TRUE, !.logouts = 1,
                             !.sent = SentBy(pq.outs, req, NoTok),
                             !.settled = RejectedBy(pq.outs, req) \o
                                <<Settlement(by, "reject", e, req[by])>>]
  /\ token' = removeItem(token)
  /\ refreshToken' = removeItem(refreshToken)
  /\ isRefreshing' = ClearRefreshing(isRefreshing)
  /\ refreshCall' = NoCall
  /\ UNCHANGED gw

\* The refresh call was rejected (network error, timeout, non-2xx).
RefreshRejected(e) == RefreshFailure(e)

\* Lines 166-184: the refresh call returned 2xx but its payload carries no
\* access token: the handler throws Error("No refresh token available").
RefreshNoToken == RefreshFailure(NoRefreshError)

\* tokenManager.setTokens, lines 352-355 (login).
SetTokens(t, rt) ==
  /\ token' = t
  /\ refreshToken' = rt
  /\ ev' = [NoEv EXCEPT !.kind = "setTokens"]
  /\ UNCHANGED <<isRefreshing, failedQueue, refreshCall, req>>
  /\ UNCHANGED gw

\* tokenManager.clearTokens, lines 358-361 (logout by the application).
ClearTokens ==
  /\ token' = removeItem(token)
  /\ refreshToken' = removeItem(refreshToken)
  /\ ev' = [NoEv EXCEPT !.kind = "clearTokens"]
  /\ UNCHANGED <<isRefreshing, failedQueue, refreshCall, req>>
  /\ UNCHANGED gw

\* Every way the network can answer the request in slot r, with the error
\* codes and statuses drawn from `codes` and `statuses`.
Respond(r, codes, statuses) ==
  \/ ResponseSuccess(r)
  \/ \E code \in codes : ResponseNoResponse(r, code)
  \/ Response401Enqueue(r)
  \/ Response401StartRefresh(r)
  \/ Response401NoRefreshToken(r)
  \/ \E status \in statuses, hasErrors \in BOOLEAN :
       /\ hasErrors => status \in {400, 422}
       /\ ResponseHttpError(r, status, hasErrors)

\* Every way the refresh call can end.
RefreshResponse ==
  \/ \E t \in AccessTokens : RefreshSucceeds(t)
  \/ \E e \in RefreshErrors : RefreshRejected(e)
  \/ RefreshNoToken

Next ==
  \/ \E r \in Reqs : SendRequest(r)
  \/ \E r \in Reqs : Respond(r, ProtocolNetCodes, ProtocolStatuses)
  \/ RefreshResponse
  \/ \E t \in AccessTokens, rt \in RefreshTokens : SetTokens(t, rt)
  \/ ClearTokens

Spec == Init /\ [][Next]_vars

\* The same handlers over every status and error code, on NumStatusReqs
\* request slots.
StatusNext ==
  \/ \E r \in StatusReqs : SendRequest(r)
  \/ \E r \in StatusReqs : Respond(r, NetCodes, StatusCodes)
  \/ RefreshResponse
  \/ \E t \in AccessTokens, rt \in RefreshTokens : SetTokens(t, rt)
  \/ ClearTokens

StatusSpec == Init /\ [][StatusNext]_vars

\* Every network call eventually gets a response or times out: a request on
\* the network is answered, and so is the refresh call.  Whether callers
\* keep issuing requests is left open.
LiveSpec ==
  /\ Spec
  /\ \A r \in Reqs : WF_vars(Respond(r, ProtocolNetCodes, ProtocolStatuses))
  /\ WF_vars(RefreshResponse)

\* The protocol on NumStatusReqs request slots, with one assumption only:
\* the refresh call is always answered (it has its own 10 s timeout, line
\* 161).  Nothing is assumed about the other responses.
PairNext ==
  \/ \E r \in StatusReqs : SendRequest(r)
  \/ \E r \in StatusReqs : Respond(r, ProtocolNetCodes, ProtocolStatuses)
  \/ RefreshResponse
  \/ \E t \in AccessTokens, rt \in RefreshTokens : SetTokens(t, rt)
  \/ ClearTokens

PairLiveSpec == Init /\ [][PairNext]_vars /\ WF_vars(RefreshResponse)


\* ---------------------------------------------------------- gateways ---
\* attendanceAPI (src/unnamed/part_000) and eventsAPI (src/Services/eventsAPI.js).
\* Every operation is an async function whose whole body is one try/catch.
\* An operation is a function of its arguments and of how the transport core
\* settles each call it issues, so it is modelled as an operator; the
\* specification GatewaySpec starts from one pending gateway call (operation,
\* arguments, outcome of each network call) and applies the operation to it.

\* Longest sequence of records handed to a bulk create.
MaxRecords == 5

\* JavaScript values, as far as the gateways look at them.
Undefined == [t |-> "undefined", n |-> 0, s |-> ""]
Null == [t |-> "null", n |-> 0, s |-> ""]
JsNaN == [t |-> "NaN", n |-> 0, s |-> ""]
Num(n) == [t |-> "number", n |-> n, s |-> ""]
Str(s) == [t |-> "string", n |-> 0, s |-> s]
Bool(b) == [t |-> "boolean", n |-> IF b THEN 1 ELSE 0, s |-> ""]

\* ToBoolean: what `if (v)`, `!v` and `v || w` test.
Truthy(v) ==
  CASE v.t \in {"undefined", "null", "NaN"} -> FALSE
    [] v.t = "number" -> v.n # 0
    [] v.t = "string" -> v.s # ""
    [] v.t = "boolean" -> v.n = 1

\* a || b (the mutant returns a whatever it is)
Or_Left(a, b) == a
Or(a, b) == IF Truthy(a) THEN a ELSE b

\* The numeric strings among the strings the model hands to the gateways.
StringToNumber(s) ==
  CASE s = "" -> Num(0)
    [] s = "7" -> Num(7)
    [] s = "-1" -> Num(0 - 1)
    [] OTHER -> JsNaN

\* ToNumber, the conversion `v < 0` applies to v.
ToNumber(v) ==
  CASE v.t = "undefined" -> JsNaN
    [] v.t = "null" -> Num(0)
    [] v.t = "NaN" -> JsNaN
    [] v.t = "number" -> v
    [] v.t = "boolean" -> Num(v.n)
    [] v.t = "string" -> StringToNumber(v.s)

\* v < k for a number k: false when v converts to NaN.
LessThan(v, k) == ToNumber(v).t = "number" /\ ToNumber(v).n < k

\* parseInt(v): v is converted to a string first, so null and undefined
\* give NaN, as does the empty string.
parseInt(v) ==
  CASE v.t = "number" -> v
    [] v.t = "string" /\ v.s # "" -> StringToNumber(v.s)
    [] OTHER -> JsNaN

\* String(v), as URLSearchParams.append and template literals apply it.
ToString(v) ==
  CASE v.t = "string" -> v.s
    [] v.t = "undefined" -> "undefined"
    [] v.t = "null" -> "null"
    [] v.t = "NaN" -> "NaN"
    [] v.t = "boolean" -> (IF v.n = 1 THEN "true" ELSE "false")
    [] v.t = "number" ->
         (CASE v.n = 0 -> "0" [] v.n = 2 -> "2" [] v.n = 5 -> "5"
            [] v.n = 7 -> "7" [] v.n = 10 -> "10" [] v.n = 50 -> "50"
            [] v.n = 100 -> "100" [] v.n = 0 - 1 -> "-1" [] OTHER -> "n")

\* s.trim() on the strings of the model.
Trim(v) == IF v.s = "  " THEN Str("") ELSE v

\* v?.trim(): undefined for undefined and null, the trimmed string for a
\* string; any other value has no trim method and the call throws.
HasTrim(v) == v.t \in {"undefined", "null", "string"}
OptionalTrim(v) == IF v.t = "string" THEN Trim(v) ELSE Undefined

\* The body of a response (response.data, error.response.data).
\*   kind   object | null | string ("" of an empty body)
Body(kind, message, data, count) ==
  [kind |-> kind, message |-> message, data |-> data, count |-> count]
NoBody == Body("null", Undefined, Undefined, Undefined)
EmptyBody == Body("string", Undefined, Undefined, Undefined)

\* response.data.<field>: a TypeError on a null body is thrown before this
\* is read; a string has no such property.
Field(body, value) == IF body.kind = "object" THEN value ELSE Undefined

OkBodies ==
  { Body("object", Str("Done"), Str("records"), Num(2)),
    Body("object", Undefined, Str("records"), Undefined),
    NoBody, EmptyBody }

ErrBodies ==
  { Body("object", Str("Server says no"), Undefined, Undefined),
    Body("object", Str(""), Undefined, Undefined),
    Body("object", Undefined, Undefined, Undefined),
    NoBody }

\* How the transport core settles one call of a gateway: the value the
\* caller's promise settles with (Response, or one of the errors the
\* response interceptor rejects with) and the body that came with it.
Outcome(val, body) == [val |-> val, body |-> body]
OkOutcome == Outcome(Response, Body("object", Str("Done"), Str("records"), Num(2)))
FailOutcome == Outcome(HttpError(500), Body("object", Undefined, Undefined, Undefined))
Outcomes ==
  {Outcome(Response, b) : b \in OkBodies}
    \cup {Outcome(HttpError(500), b) : b \in ErrBodies}
    \cup {Outcome(NetError("ERR_NETWORK"), NoBody), Outcome(NoRefreshError, NoBody)}

\* An error object as a catch block reads it: error.response?.data and
\* error.message.
Error(hasResponse, data, message) ==
  [hasResponse |-> hasResponse, data |-> data, message |-> message]
NoErr == Error(FALSE, NoBody, Undefined)
\* throw new Error(message)
Thrown(message) == Error(FALSE, NoBody, Str(message))
\* reading a property of undefined or null, or calling what is no function
TypeError == Error(FALSE, NoBody, Str("TypeError"))
\* the error a rejected call is rejected with
ErrorOf(out) ==
  Error(out.val.type = "http", out.body,
        CASE out.val.type = "http" -> Str("Request failed with status code 500")
          [] out.val.type = "net" -> Str("Network Error")
          [] OTHER -> Str(out.val.code))

\* error.response?.data?.message
BodyMessage(error) ==
  IF error.hasResponse THEN Field(error.data, error.data.message) ELSE Undefined

\* One call handed to apiClient.
ApiCall(method, url, query, body) ==
  [method |-> method, url |-> url, query |-> query, body |-> body]

\* The data of a Result Envelope.
Payload(value) == [type |-> "payload", value |-> value]
NoData == [type |-> "absent", value |-> Undefined]
Fallback == [type |-> "fallback", value |-> Undefined]
Download(filename) == [type |-> "download", value |-> Str(filename)]

\* The Result Envelope.
Envelope(success, data, message, count) ==
  [success |-> success, data |-> data, message |-> message, count |-> count]
NoEnvelope == Envelope(FALSE, NoData, Undefined, Undefined)

\* How a try block ends: it returns an envelope or throws; calls are the
\* network calls it issued and download tells whether it clicked a download
\* link.
Returns(env, calls, download) ==
  [threw |-> FALSE, error |-> NoErr, env |-> env, calls |-> calls,
   download |-> download]
Throws(error, calls) ==
  [threw |-> TRUE, error |-> error, env |-> NoEnvelope, calls |-> calls,
   download |-> FALSE]

\* How the promise of an async operation settles.
Settled(how, env, calls, download) ==
  [settle |-> how, env |-> env, calls |-> calls, download |-> download]

\* async (...) => { try { body } catch (error) { return caught } }: the
\* promise resolves with what the try block returned or, if it threw, with
\* what the catch block returns.  (The mutant lets the error escape.)
TryCatch_Rethrow(body, caught) ==
  IF body.threw
    THEN Settled("reject", NoEnvelope, body.calls, body.download)
    ELSE Settled("resolve", body.env, body.calls, body.download)
TryCatch(body, caught) ==
  IF body.threw
    THEN Settled("resolve", caught, body.calls, body.download)
    ELSE Settled("resolve", body.env, body.calls, body.download)

\* The three shapes of catch block: message from the response body, else a
\* literal; from the body, else error.message, else a literal; from
\* error.message, else a literal.
CatchBody(error, data, literal) ==
  Envelope(FALSE, data, Or(BodyMessage(error), Str(literal)), Undefined)
CatchBodyOrError(error, data, literal) ==
  Envelope(FALSE, data, Or(Or(BodyMessage(error), error.message), Str(literal)),
           Undefined)
CatchError(error, data, literal) ==
  Envelope(FALSE, data, Or(error.message, Str(literal)), Undefined)

\* const response = await apiClient.<method>(...);
\* return {success: true, data: response.data.data,
\*         message: response.data.message || literal};
AwaitAndReturn(call, out, literal) ==
  IF out.val # Response THEN Throws(ErrorOf(out), <<call>>)
  ELSE IF out.body.kind = "null" THEN Throws(TypeError, <<call>>)
  ELSE Returns(Envelope(TRUE, Payload(Field(out.body, out.body.data)),
                        Or(Field(out.body, out.body.message), Str(literal)),
                        Undefined),
               <<call>>, FALSE)

\* queryParams.append(key, value) under `if (value)`
AppendIf(query, key, value) ==
  IF Truthy(value) THEN Append(query, [key |-> key, value |-> ToString(value)])
  ELSE query

\* queryParams.append(key, value) under `if (value && value !== 'all')`.
\* (The mutant drops the comparison with the sentinel.)
AppendUnlessAll_NoSentinel(query, key, value) == AppendIf(query, key, value)
AppendUnlessAll(query, key, value) ==
  IF Truthy(value) /\ value # Str("all")
    THEN Append(query, [key |-> key, value |-> ToString(value)])
    ELSE query

\* A filters argument: an object with the given properties, or null.
\* `filters = {}` replaces an undefined argument before the body runs.
NoFilters ==
  [t |-> "object", page |-> Undefined, limit |-> Undefined,
   startDate |-> Undefined, endDate |-> Undefined, serviceType |-> Undefined,
   search |-> Undefined, status |-> Undefined, category |-> Undefined,
   upcoming |-> Undefined, sortBy |-> Undefined, sortOrder |-> Undefined,
   format |-> Undefined]
NullFilters == [NoFilters EXCEPT !.t = "null"]

\* ------------------------------------------------------ attendanceAPI ---
\* part_000 lines 6-41
AttendanceQuery(filters) ==
  LET q1 == AppendIf(<<>>, "page", filters.page)
      q2 == AppendIf(q1, "limit", filters.limit)
      q3 == AppendIf(q2, "startDate", filters.startDate)
      q4 == AppendIf(q3, "endDate", filters.endDate)
      q5 == AppendUnlessAll(q4, "serviceType", filters.serviceType)
      q6 == AppendIf(q5, "sortBy", filters.sortBy)
  IN AppendIf(q6, "sortOrder", filters.sortOrder)

getAttendanceRecords(filters, out) ==
  LET body ==
        IF filters.t # "object" THEN Throws(TypeError, <<>>)
        ELSE AwaitAndReturn(ApiCall("get", "/attendance", AttendanceQuery(filters),
                                    Undefined),
                            out, "Attendance records retrieved successfully")
  IN TryCatch(body, CatchBody(body.error, NoData,
                              "Failed to fetch attendance records"))

\* part_000 lines 44-64
getAttendanceById(id, out) ==
  LET body ==
        IF ~Truthy(id) THEN Throws(Thrown("Attendance ID is required"), <<>>)
        ELSE AwaitAndReturn(ApiCall("get", "/attendance/:id", <<>>, Undefined),
                            out, "Attendance record retrieved successfully")
  IN TryCatch(body, CatchBody(body.error, NoData,
                              "Failed to fetch attendance record"))

\* An attendanceData argument: an object with the three validated
\* properties, or undefined.
AttendanceRecord(date, serviceType, totalAttendance) ==
  [t |-> "object", date |-> date, serviceType |-> serviceType,
   totalAttendance |-> totalAttendance]
NoAttendanceRecord ==
  [t |-> "undefined", date |-> Undefined, serviceType |-> Undefined,
   totalAttendance |-> Undefined]

\* part_000 lines 70-78 and 115-123: the error the validation throws, NoErr
\* if it throws none.
ValidateAttendance(attendanceData) ==
  IF attendanceData.t # "object" THEN TypeError
  ELSE IF ~Truthy(attendanceData.date) THEN Thrown("Date is required")
  ELSE IF ~Truthy(attendanceData.serviceType) THEN Thrown("Service type is required")
  ELSE IF \/ attendanceData.totalAttendance = Undefined
          \/ LessThan(attendanceData.totalAttendance, 0)
    THEN Thrown("Total attendance must be a non-negative number")
  ELSE NoErr

\* part_000 lines 67-105.  The body of the call is recorded by the
\* totalAttendance it carries.
createAttendance(attendanceData, out) ==
  LET body ==
        IF ValidateAttendance(attendanceData) # NoErr
          THEN Throws(ValidateAttendance(attendanceData), <<>>)
        ELSE AwaitAndReturn(ApiCall("post", "/attendance", <<>>,
                                    parseInt(attendanceData.totalAttendance)),
                            out, "Attendance recorded successfully")
  IN TryCatch(body, CatchBodyOrError(body.error, NoData,
                                     "Failed to record attendance"))

\* part_000 lines 108-150
updateAttendance(id, attendanceData, out) ==
  LET body ==
        IF ~Truthy(id) THEN Throws(Thrown("Attendance ID is required"), <<>>)
        ELSE IF ValidateAttendance(attendanceData) # NoErr
          THEN Throws(ValidateAttendance(attendanceData), <<>>)
        ELSE AwaitAndReturn(ApiCall("put", "/attendance/:id", <<>>,
                                    parseInt(attendanceData.totalAttendance)),
                            out, "Attendance updated successfully")
  IN TryCatch(body, CatchBodyOrError(body.error, NoData,
                                     "Failed to update attendance"))

\* part_000 lines 153-172
deleteAttendance(id, out) ==
  LET body ==
        IF ~Truthy(id) THEN Throws(Thrown("Attendance ID is required"), <<>>)
        ELSE AwaitAndReturn(ApiCall("delete", "/attendance/:id", <<>>, Undefined),
                            out, "Attendance record deleted successfully")
  IN TryCatch(body, CatchBody(body.error, NoData,
                              "Failed to delete attendance record"))

\* `(parameter = value)`: the default replaces an undefined argument.
Default(argument, value) == IF argument = Undefined THEN value ELSE argument

\* part_000 lines 175-202
getAttendanceStats(period, out) ==
  LET p == Default(period, Str("month"))
      body ==
        IF p \notin {Str("week"), Str("month"), Str("year")}
          THEN Throws(Thrown("Period must be one of: week, month, year"), <<>>)
        ELSE AwaitAndReturn(ApiCall("get", "/attendance/stats",
                                    <<[key |-> "period", value |-> ToString(p)]>>,
                                    Undefined),
                            out, "Attendance statistics retrieved successfully")
  IN TryCatch(body, CatchBodyOrError(body.error, Fallback,
                                     "Failed to fetch attendance statistics"))

\* part_000 lines 205-232
getServiceTypes(out) ==
  LET body == AwaitAndReturn(ApiCall("get", "/attendance/service-types", <<>>,
                                     Undefined),
                             out, "Service types retrieved successfully")
  IN TryCatch(body, CatchBody(body.error, Fallback, "Failed to fetch service types"))

\* part_000 lines 235-251
getMembersForAttendance(out) ==
  LET body == AwaitAndReturn(ApiCall("get", "/attendance/members", <<>>, Undefined),
                             out, "Members retrieved successfully")
  IN TryCatch(body, CatchBody(body.error, Fallback, "Failed to fetch members"))

\* `if (format === 'csv')`, part_000 line 263 and eventsAPI.js line 325.
\* (The mutant takes the download branch whatever the format.)
IsCsv_Always(format) == TRUE
IsCsv(format) == format = Str("csv")

\* The csv branch after its call: part_000 lines 265-287, eventsAPI.js lines
\* 327-350.  The download link is built and clicked and the envelope names
\* the file; response.data goes into the Blob only.
DownloadBranch(call, out, filename, literal) ==
  IF out.val # Response THEN Throws(ErrorOf(out), <<call>>)
  ELSE Returns(Envelope(TRUE, Download(filename), Str(literal), Undefined),
               <<call>>, TRUE)

\* The other branch: part_000 lines 290-296, eventsAPI.js lines 353-362.
JsonBranch(call, out, literal) ==
  IF out.val # Response THEN Throws(ErrorOf(out), <<call>>)
  ELSE IF out.body.kind = "null" THEN Throws(TypeError, <<call>>)
  ELSE Returns(Envelope(TRUE, Payload(Field(out.body, out.body.data)),
                        Or(Field(out.body, out.body.message), Str(literal)),
                        Field(out.body, out.body.count)),
               <<call>>, FALSE)

\* part_000 lines 254-305.  The body of the call is recorded by its format.
generateReport(filters, out) ==
  LET format == Or(filters.format, Str("csv"))
      body ==
        IF filters.t # "object" THEN Throws(TypeError, <<>>)
        ELSE IF IsCsv(format)
          THEN DownloadBranch(ApiCall("post", "/attendance/report", <<>>, format),
                              out, "attendance_report.csv",
                              "CSV report downloaded successfully")
        ELSE JsonBranch(ApiCall("post", "/attendance/report", <<>>, Str("json")),
                        out, "Report generated successfully")
  IN TryCatch(body, CatchBody(body.error, NoData, "Failed to generate report"))

\* All the network calls of a sequence of settled operations, in order.
RECURSIVE CallsOf(_)
CallsOf(results) ==
  IF results = <<>> THEN <<>> ELSE Head(results).calls \o CallsOf(Tail(results))

\* part_000 lines 314-318, eventsAPI.js lines 402-406: one create per
\* record, all awaited with Promise.allSettled.  (The mutant stops at the
\* first record whose create fails.)
CreateEach_StopAtFailure(records, outs) ==
  LET all == [i \in 1..Len(records) |-> createAttendance(records[i], outs[i])]
      failures == {i \in 1..Len(records) : ~all[i].env.success}
      last == IF failures = {} THEN Len(records)
              ELSE CHOOSE i \in failures : \A j \in failures : i <= j
  IN SubSeq(all, 1, last)
CreateEach(records, outs) ==
  [i \in 1..Len(records) |-> createAttendance(records[i], outs[i])]

\* part_000 lines 320-321, eventsAPI.js lines 408-409.  (The mutant of
\* CountFailed counts the rejected promises only.)
CountSuccessful(results) ==
  Cardinality({i \in 1..Len(results) :
                 results[i].settle = "resolve" /\ results[i].env.success})
CountFailed_RejectedOnly(results) ==
  Cardinality({i \in 1..Len(results) : results[i].settle = "reject"})
CountFailed(results) ==
  Cardinality({i \in 1..Len(results) :
                 results[i].settle = "reject" \/ ~results[i].env.success})

\* part_000 lines 323-332, eventsAPI.js lines 411-420
BulkEnvelope(results, total) ==
  Envelope(CountFailed(results) = 0,
           [type |-> "bulk", successful |-> CountSuccessful(results),
            failed |-> CountFailed(results), total |-> total,
            results |-> results],
           Str("Bulk create completed: n successful, m failed"), Undefined)

\* An array argument, or what is no array.
Array(items) == [t |-> "array", items |-> items]
NoArray == [t |-> "undefined", items |-> <<>>]

\* part_000 lines 308-340
bulkCreateAttendance(attendanceRecords, outs) ==
  LET results == CreateEach(attendanceRecords.items, outs)
      body ==
        IF attendanceRecords.t # "array" \/ Len(attendanceRecords.items) = 0
          THEN Throws(Thrown("Attendance records array is required"), <<>>)
        ELSE Returns(BulkEnvelope(results, Len(attendanceRecords.items)),
                     CallsOf(results), FALSE)
  IN TryCatch(body, CatchError(body.error, NoData,
                               "Failed to bulk create attendance records"))

\* `await operation(...)` inside a try block: the operation's envelope, or
\* a throw if its promise rejected.
AwaitInner(result) ==
  IF result.settle = "reject" THEN Throws(Thrown("rejected"), result.calls)
  ELSE Returns(result.env, result.calls, result.download)

\* searchTerm.includes('service') on the strings of the model
IncludesService(searchTerm) == searchTerm.s = "sunday service"

\* {...filters}: the properties of an object, none of null.
Spread(filters) == IF filters.t = "object" THEN filters ELSE NoFilters

\* part_000 lines 343-365
searchAttendance(searchTerm, filters, out) ==
  LET body ==
        IF ~Truthy(searchTerm)
          THEN AwaitInner(getAttendanceRecords(filters, out))
        ELSE IF searchTerm.t # "string" THEN Throws(TypeError, <<>>)
        ELSE IF Trim(searchTerm).s = ""
          THEN AwaitInner(getAttendanceRecords(filters, out))
        ELSE IF IncludesService(searchTerm)
          THEN AwaitInner(getAttendanceRecords(
                 [Spread(filters) EXCEPT !.serviceType = searchTerm], out))
        ELSE IF filters.t # "object" THEN Throws(TypeError, <<>>)
        ELSE AwaitInner(getAttendanceRecords(filters, out))
  IN TryCatch(body, CatchError(body.error, Fallback,
                               "Failed to search attendance records"))

\* `if (!stats.success)`, part_000 line 372 and eventsAPI.js line 458.
\* (The mutant never takes the early return.)
PrimaryFailed_Never(stats) == FALSE
PrimaryFailed(stats) == ~stats.env.success

\* part_000 lines 368-399
getAttendanceSummary(period, outs) ==
  LET p == Default(period, Str("month"))
      stats == AwaitInner(getAttendanceStats(p, outs[1]))
      recentRecords ==
        AwaitInner(getAttendanceRecords(
          [NoFilters EXCEPT !.limit = Num(10), !.sortBy = Str("date"),
                            !.sortOrder = Str("DESC")], outs[2]))
      body ==
        IF stats.threw THEN stats
        ELSE IF PrimaryFailed(stats) THEN stats
        ELSE IF recentRecords.threw
          THEN Throws(recentRecords.error, stats.calls \o recentRecords.calls)
        ELSE Returns(Envelope(TRUE,
                       [type |-> "summary", stats |-> stats.env.data,
                        recent |-> IF recentRecords.env.success
                                     THEN recentRecords.env.data ELSE NoData],
                       Str("Attendance summary retrieved successfully"),
                       Undefined),
                     stats.calls \o recentRecords.calls, FALSE)
  IN TryCatch(body, CatchError(body.error, NoData,
                               "Failed to get attendance summary"))

\* ---------------------------------------------------------- eventsAPI ---
\* eventsAPI.js lines 6-44
EventsQuery(filters) ==
  LET q1 == AppendIf(<<>>, "page", filters.page)
      q2 == AppendIf(q1, "limit", filters.limit)
      q3 == AppendIf(q2, "search", filters.search)
      q4 == AppendUnlessAll(q3, "status", filters.status)
      q5 == AppendUnlessAll(q4, "category", filters.category)
      q6 == AppendIf(q5, "upcoming", filters.upcoming)
      q7 == AppendIf(q6, "sortBy", filters.sortBy)
  IN AppendIf(q7, "sortOrder", filters.sortOrder)

getEvents(filters, out) ==
  LET body ==
        IF filters.t # "object" THEN Throws(TypeError, <<>>)
        ELSE AwaitAndReturn(ApiCall("get", "/events", EventsQuery(filters),
                                    Undefined),
                            out, "Events retrieved successfully")
  IN TryCatch(body, CatchBody(body.error, NoData, "Failed to fetch events"))

\* eventsAPI.js lines 47-67
getEventById(id, out) ==
  LET body ==
        IF ~Truthy(id) THEN Throws(Thrown("Event ID is required"), <<>>)
        ELSE AwaitAndReturn(ApiCall("get", "/events/:id", <<>>, Undefined),
                            out, "Event details retrieved successfully")
  IN TryCatch(body, CatchBody(body.error, NoData, "Failed to fetch event details"))

\* An eventData argument: an object with the validated properties, or
\* undefined.
EventRecord(title, description, date, time, location, category) ==
  [t |-> "object", title |-> title, description |-> description, date |-> date,
   time |-> time, location |-> location, category |-> category]
NoEventRecord ==
  [t |-> "undefined", title |-> Undefined, description |-> Undefined,
   date |-> Undefined, time |-> Undefined, location |-> Undefined,
   category |-> Undefined]

\* eventsAPI.js lines 73-90: the error the validation throws, NoErr if none.
ValidateEvent(eventData) ==
  IF eventData.t # "object" THEN TypeError
  ELSE IF ~HasTrim(eventData.title) THEN TypeError
  ELSE IF ~Truthy(OptionalTrim(eventData.title))
    THEN Thrown("Event title is required")
  ELSE IF ~HasTrim(eventData.description) THEN TypeError
  ELSE IF ~Truthy(OptionalTrim(eventData.description))
    THEN Thrown("Event description is required")
  ELSE IF ~Truthy(eventData.date) THEN Thrown("Event date is required")
  ELSE IF ~Truthy(eventData.time) THEN Thrown("Event time is required")
  ELSE IF ~HasTrim(eventData.location) THEN TypeError
  ELSE IF ~Truthy(OptionalTrim(eventData.location))
    THEN Thrown("Event location is required")
  ELSE IF ~Truthy(eventData.category) THEN Thrown("Event category is required")
  ELSE NoErr

\* eventsAPI.js lines 70-123
createEvent(eventData, out) ==
  LET body ==
        IF ValidateEvent(eventData) # NoErr
          THEN Throws(ValidateEvent(eventData), <<>>)
        ELSE AwaitAndReturn(ApiCall("post", "/events", <<>>, Undefined),
                            out, "Event created successfully")
  IN TryCatch(body, CatchBodyOrError(body.error, NoData, "Failed to create event"))

\* eventsAPI.js lines 133-141: a property that is given must not be blank.
BlankIfGiven(value) == value # Undefined /\ ~Truthy(OptionalTrim(value))
ValidateEventUpdate(eventData) ==
  IF eventData.t # "object" THEN TypeError
  ELSE IF ~HasTrim(eventData.title) THEN TypeError
  ELSE IF BlankIfGiven(eventData.title) THEN Thrown("Event title cannot be empty")
  ELSE IF ~HasTrim(eventData.description) THEN TypeError
  ELSE IF BlankIfGiven(eventData.description)
    THEN Thrown("Event description cannot be empty")
  ELSE IF ~HasTrim(eventData.location) THEN TypeError
  ELSE IF BlankIfGiven(eventData.location)
    THEN Thrown("Event location cannot be empty")
  ELSE NoErr

\* eventsAPI.js lines 126-187
updateEvent(id, eventData, out) ==
  LET body ==
        IF ~Truthy(id) THEN Throws(Thrown("Event ID is required"), <<>>)
        ELSE IF ValidateEventUpdate(eventData) # NoErr
          THEN Throws(ValidateEventUpdate(eventData), <<>>)
        ELSE AwaitAndReturn(ApiCall("put", "/events/:id", <<>>, Undefined),
                            out, "Event updated successfully")
  IN TryCatch(body, CatchBodyOrError(body.error, NoData, "Failed to update event"))

\* eventsAPI.js lines 190-209
deleteEvent(id, out) ==
  LET body ==
        IF ~Truthy(id) THEN Throws(Thrown("Event ID is required"), <<>>)
        ELSE AwaitAndReturn(ApiCall("delete", "/events/:id", <<>>, Undefined),
                            out, "Event deleted successfully")
  IN TryCatch(body, CatchBody(body.error, NoData, "Failed to delete event"))

\* eventsAPI.js lines 212-241
getEventCategories(out) ==
  LET body == AwaitAndReturn(ApiCall("get", "/events/categories", <<>>, Undefined),
                             out, "Categories retrieved successfully")
  IN TryCatch(body, CatchBody(body.error, Fallback, "Failed to fetch categories"))

\* eventsAPI.js lines 244-267
getEventsStats(out) ==
  LET body == AwaitAndReturn(ApiCall("get", "/events/stats", <<>>, Undefined),
                             out, "Events statistics retrieved successfully")
  IN TryCatch(body, CatchBody(body.error, Fallback,
                              "Failed to fetch events statistics"))

\* eventsAPI.js lines 270-295
updateEventAttendance(id, attendanceCount, out) ==
  LET body ==
        IF ~Truthy(id) THEN Throws(Thrown("Event ID is required"), <<>>)
        ELSE IF LessThan(attendanceCount, 0)
          THEN Throws(Thrown("Attendance count cannot be negative"), <<>>)
        ELSE AwaitAndReturn(ApiCall("patch", "/events/:id/attendance", <<>>,
                                    parseInt(attendanceCount)),
                            out, "Event attendance updated successfully")
  IN TryCatch(body, CatchBodyOrError(body.error, NoData,
                                     "Failed to update event attendance"))

\* eventsAPI.js lines 298-314
getUpcomingEvents(limit, out) ==
  LET l == Default(limit, Num(10))
      body == AwaitAndReturn(ApiCall("get", "/events/upcoming",
                                     <<[key |-> "limit", value |-> ToString(l)]>>,
                                     Undefined),
                             out, "Upcoming events retrieved successfully")
  IN TryCatch(body, CatchBody(body.error, Fallback,
                              "Failed to fetch upcoming events"))

\* eventsAPI.js lines 317-371.  The params of the call are its query.
exportEvents(filters, out) ==
  LET format == Or(filters.format, Str("csv"))
      status == Or(filters.status, Str("all"))
      category == Or(filters.category, Str("all"))
      params(f) == <<[key |-> "format", value |-> ToString(f)],
                     [key |-> "status", value |-> ToString(status)],
                     [key |-> "category", value |-> ToString(category)]>>
      body ==
        IF filters.t # "object" THEN Throws(TypeError, <<>>)
        ELSE IF IsCsv(format)
          THEN DownloadBranch(ApiCall("get", "/events/export", params(format),
                                      Undefined),
                              out, "events_export.csv",
                              "CSV export downloaded successfully")
        ELSE JsonBranch(ApiCall("get", "/events/export", params(Str("json")),
                                Undefined),
                        out, "Events exported successfully")
  IN TryCatch(body, CatchBody(body.error, NoData, "Failed to export events"))

\* eventsAPI.js lines 374-393
duplicateEvent(id, out) ==
  LET body ==
        IF ~Truthy(id) THEN Throws(Thrown("Event ID is required"), <<>>)
        ELSE AwaitAndReturn(ApiCall("post", "/events/:id/duplicate", <<>>,
                                    Undefined),
                            out, "Event duplicated successfully")
  IN TryCatch(body, CatchBody(body.error, NoData, "Failed to duplicate event"))

\* eventsAPI.js lines 402-406
CreateEachEvent(eventsData, outs) ==
  [i \in 1..Len(eventsData) |-> createEvent(eventsData[i], outs[i])]

\* eventsAPI.js lines 396-428
bulkCreateEvents(eventsData, outs) ==
  LET results == CreateEachEvent(eventsData.items, outs)
      body ==
        IF eventsData.t # "array" \/ Len(eventsData.items) = 0
          THEN Throws(Thrown("Events data array is required"), <<>>)
        ELSE Returns(BulkEnvelope(results, Len(eventsData.items)),
                     CallsOf(results), FALSE)
  IN TryCatch(body, CatchError(body.error, NoData, "Failed to bulk create events"))

\* eventsAPI.js lines 431-451
searchEvents(searchTerm, filters, out) ==
  LET body ==
        IF ~Truthy(searchTerm) THEN AwaitInner(getEvents(filters, out))
        ELSE IF searchTerm.t # "string" THEN Throws(TypeError, <<>>)
        ELSE IF Trim(searchTerm).s = "" THEN AwaitInner(getEvents(filters, out))
        ELSE AwaitInner(getEvents(
               [Spread(filters) EXCEPT !.search = Trim(searchTerm)], out))
  IN TryCatch(body, CatchError(body.error, Fallback, "Failed to search events"))

\* {limit: 5, sortBy: 'date', sortOrder: 'DESC', ...filters}: a property of
\* filters replaces the literal one.
RecentEventsFilters(filters) ==
  LET f == Spread(filters)
  IN [f EXCEPT !.limit = Default(f.limit, Num(5)),
               !.sortBy = Default(f.sortBy, Str("date")),
               !.sortOrder = Default(f.sortOrder, Str("DESC"))]

\* eventsAPI.js lines 454-489
getEventsSummary(filters, outs) ==
  LET stats == AwaitInner(getEventsStats(outs[1]))
      recentEvents == AwaitInner(getEvents(RecentEventsFilters(filters), outs[2]))
      upcomingEvents == AwaitInner(getUpcomingEvents(Num(5), outs[3]))
      calls == stats.calls \o recentEvents.calls \o upcomingEvents.calls
      body ==
        IF stats.threw THEN stats
        ELSE IF PrimaryFailed(stats) THEN stats
        ELSE IF recentEvents.threw
          THEN Throws(recentEvents.error, stats.calls \o recentEvents.calls)
        ELSE IF upcomingEvents.threw THEN Throws(upcomingEvents.error, calls)
        ELSE Returns(Envelope(TRUE,
                       [type |-> "summary", stats |-> stats.env.data,
                        recent |-> IF recentEvents.env.success
                                     THEN recentEvents.env.data ELSE NoData,
                        upcoming |-> IF upcomingEvents.env.success
                                       THEN upcomingEvents.env.data ELSE NoData],
                       Str("Events summary retrieved successfully"), Undefined),
                     calls, FALSE)
  IN TryCatch(body, CatchError(body.error, NoData, "Failed to get events summary"))

\* eventsAPI.js lines 492-512
getEventsByCategory(category, out) ==
  LET body ==
        IF ~Truthy(category) THEN Throws(Thrown("Category is required"), <<>>)
        ELSE AwaitInner(getEvents(
               [NoFilters EXCEPT !.category = category, !.limit = Num(50),
                                 !.sortBy = Str("date"), !.sortOrder = Str("ASC")],
               out))
  IN TryCatch(body, CatchError(body.error, Fallback,
                               "Failed to get events by category"))

\* eventsAPI.js lines 515-536
getEventsByDateRange(startDate, endDate, out) ==
  LET body ==
        IF ~Truthy(startDate) \/ ~Truthy(endDate)
          THEN Throws(Thrown("Start date and end date are required"), <<>>)
        ELSE AwaitInner(getEvents(
               [NoFilters EXCEPT !.limit = Num(100), !.sortBy = Str("date"),
                                 !.sortOrder = Str("ASC")],
               out))
  IN TryCatch(body, CatchError(body.error, Fallback,
                               "Failed to get events by date range"))

\* eventsAPI.js lines 539-569: allEvents.data.filter(...) throws when the
\* response carried no data array; the catch block returns a literal.
getTodaysEvents(out) ==
  LET allEvents ==
        AwaitInner(getEvents(
          [NoFilters EXCEPT !.limit = Num(50), !.sortBy = Str("time"),
                            !.sortOrder = Str("ASC")],
          out))
      body ==
        IF allEvents.threw THEN allEvents
        ELSE IF ~allEvents.env.success THEN allEvents
        ELSE IF allEvents.env.data.value = Undefined
          THEN Throws(TypeError, allEvents.calls)
        ELSE Returns(Envelope(TRUE, allEvents.env.data,
                              Str("Today's events retrieved successfully"),
                              Undefined),
                     allEvents.calls, FALSE)
  IN TryCatch(body, Envelope(FALSE, Fallback, Str("Failed to get today's events"),
                             Undefined))

\* ------------------------------------------------- gateway arguments ---
Totals ==
  {Undefined, Null, JsNaN, Num(0 - 1), Num(0), Num(5), Str("abc"), Str("7"),
   Str("-1")}
AttendanceRecords ==
  {NoAttendanceRecord}
    \cup {AttendanceRecord(d, s, n) :
            d \in {Undefined, Str("2024-01-07")},
            s \in {Str(""), Str("Sunday Service")},
            n \in Totals}
ValidAttendance == AttendanceRecord(Str("2024-01-07"), Str("Sunday Service"), Num(5))
InvalidAttendance ==
  AttendanceRecord(Str("2024-01-07"), Str("Sunday Service"), Num(0 - 1))

AttendanceFilters ==
  {NullFilters}
    \cup {[NoFilters EXCEPT !.page = p, !.limit = l, !.startDate = sd,
                            !.endDate = ed, !.serviceType = st, !.sortBy = sb,
                            !.sortOrder = so] :
            p \in {Undefined, Num(0), Num(2)},
            l \in {Undefined, Num(10)},
            sd \in {Undefined, Str("2024-01-01")},
            ed \in {Undefined, Str("")},
            st \in {Undefined, Null, Str(""), Str("all"), Str("Sunday Service")},
            sb \in {Undefined, Str("date")},
            so \in {Undefined, Str("DESC")}}

EventFilters ==
  {NullFilters}
    \cup {[NoFilters EXCEPT !.page = p, !.limit = l, !.search = se,
                            !.status = st, !.category = c, !.upcoming = u,
                            !.sortBy = sb] :
            p \in {Undefined, Num(2)},
            l \in {Undefined, Num(0)},
            se \in {Undefined, Str(""), Str("all")},
            st \in {Undefined, Str("all"), Str("upcoming")},
            c \in {Undefined, Null, Str(""), Str("all"), Str("Service")},
            u \in {Undefined, Bool(FALSE), Bool(TRUE)},
            sb \in {Undefined, Str("date")}}

ExportFilters ==
  {NullFilters}
    \cup {[NoFilters EXCEPT !.format = f, !.status = st, !.category = c] :
            f \in {Undefined, Str(""), Str("csv"), Str("json"), Str("xml")},
            st \in {Undefined, Str("all"), Str("upcoming")},
            c \in {Undefined, Str("Service")}}

SummaryFilters ==
  {NullFilters, NoFilters,
   [NoFilters EXCEPT !.limit = Num(50), !.status = Str("all"),
                     !.category = Str("Service")]}

EventRecords ==
  {NoEventRecord}
    \cup {EventRecord(ti, de, da, tm, lo, ca) :
            ti \in {Undefined, Str("  "), Str("Picnic"), Num(5)},
            de \in {Undefined, Str("Food and games")},
            da \in {Undefined, Str("2024-01-07")},
            tm \in {Str(""), Str("10:00")},
            lo \in {Null, Str("Hall")},
            ca \in {Undefined, Str("Fellowship")}}
ValidEvent ==
  EventRecord(Str("Picnic"), Str("Food and games"), Str("2024-01-07"),
              Str("10:00"), Str("Hall"), Str("Fellowship"))
InvalidEvent ==
  EventRecord(Str("  "), Str("Food and games"), Str("2024-01-07"),
              Str("10:00"), Str("Hall"), Str("Fellowship"))

EventUpdates ==
  {NoEventRecord}
    \cup {EventRecord(ti, de, Undefined, Undefined, lo, Undefined) :
            ti \in {Undefined, Null, Str("  "), Str("Picnic"), Num(5)},
            de \in {Undefined, Str(""), Str("Food and games")},
            lo \in {Undefined, Str("Hall"), Bool(TRUE)}}


\* What the bulk operations are handed: a record and the outcome of the
\* call its create issues, if it issues one.
BulkAttendanceItems ==
  {<<ValidAttendance, OkOutcome>>, <<ValidAttendance, FailOutcome>>,
   <<InvalidAttendance, OkOutcome>>}
BulkEventItems ==
  {<<ValidEvent, OkOutcome>>, <<ValidEvent, FailOutcome>>,
   <<InvalidEvent, OkOutcome>>}

\* The outcomes of the secondary calls of a summary operation.
SecondaryOutcomes ==
  {OkOutcome, FailOutcome, Outcome(NetError("ERR_NETWORK"), NoBody)}

\* --------------------------------------------- gateway specification ---
\* A gateway call that has been made and has not settled yet.
Call(op, args, outs) ==
  [pc |-> "called", op |-> op, args |-> args, outs |-> outs,
   settle |-> "pending", env |-> NoEnvelope, calls |-> <<>>, download |-> FALSE]

\* A gateway call has been made: any operation of attendanceAPI or eventsAPI,
\* over its arguments and over the outcomes of its calls.  The transport
\* core is as Init leaves it.
GatewayInit ==
  /\ token = NoTok
  /\ refreshToken = NoTok
  /\ isRefreshing = FALSE
  /\ failedQueue = <<>>
  /\ refreshCall = NoCall
  /\ req = [r \in Reqs \cup StatusReqs |-> NewConfig]
  /\ ev = NoEv
  /\ gw \in
       LET Ids == {Undefined, Str(""), Num(7)}
           SearchTerms ==
             {Undefined, Str(""), Str("  "), Str("sunday service"), Str("john"), Num(5)}
           Periods == {Undefined, Null, Str("week"), Str("month"), Str("year"), Str("day")}
           SeqsUpTo(S, n) == UNION {[1..k -> S] : k \in 0..n}
           Firsts(items) == [i \in 1..Len(items) |-> items[i][1]]
           Seconds(items) == [i \in 1..Len(items) |-> items[i][2]]
       IN
       {Call("getAttendanceRecords", [filters |-> f], <<o>>) :
          f \in AttendanceFilters, o \in Outcomes}
         \cup {Call("getAttendanceById", [id |-> i], <<o>>) : i \in Ids, o \in Outcomes}
         \cup {Call("createAttendance", [attendanceData |-> d], <<o>>) :
                 d \in AttendanceRecords, o \in Outcomes}
         \cup {Call("updateAttendance", [id |-> i, attendanceData |-> d], <<o>>) :
                 i \in Ids, d \in AttendanceRecords, o \in Outcomes}
         \cup {Call("deleteAttendance", [id |-> i], <<o>>) : i \in Ids, o \in Outcomes}
         \cup {Call("getAttendanceStats", [period |-> p], <<o>>) :
                 p \in Periods, o \in Outcomes}
         \cup {Call("getServiceTypes", [none |-> Undefined], <<o>>) : o \in Outcomes}
         \cup {Call("getMembersForAttendance", [none |-> Undefined], <<o>>) :
                 o \in Outcomes}
         \cup {Call("generateReport", [filters |-> f], <<o>>) :
                 f \in ExportFilters, o \in Outcomes}
         \cup {Call("bulkCreateAttendance", [attendanceRecords |-> Array(Firsts(items))],
                    Seconds(items)) :
                 items \in SeqsUpTo(BulkAttendanceItems, MaxRecords)}
         \cup {Call("bulkCreateAttendance", [attendanceRecords |-> NoArray], <<>>)}
         \cup {Call("searchAttendance", [searchTerm |-> s, filters |-> f], <<o>>) :
                 s \in SearchTerms, f \in SummaryFilters, o \in Outcomes}
         \cup {Call("getAttendanceSummary", [period |-> p], <<o1, o2>>) :
                 p \in Periods, o1 \in Outcomes, o2 \in SecondaryOutcomes}
         \cup
       {Call("getEvents", [filters |-> f], <<o>>) : f \in EventFilters, o \in Outcomes}
         \cup {Call("getEventById", [id |-> i], <<o>>) : i \in Ids, o \in Outcomes}
         \cup {Call("createEvent", [eventData |-> d], <<o>>) :
                 d \in EventRecords, o \in Outcomes}
         \cup {Call("updateEvent", [id |-> i, eventData |-> d], <<o>>) :
                 i \in Ids, d \in EventUpdates, o \in Outcomes}
         \cup {Call("deleteEvent", [id |-> i], <<o>>) : i \in Ids, o \in Outcomes}
         \cup {Call("getEventCategories", [none |-> Undefined], <<o>>) : o \in Outcomes}
         \cup {Call("getEventsStats", [none |-> Undefined], <<o>>) : o \in Outcomes}
         \cup {Call("updateEventAttendance", [id |-> i, attendanceCount |-> n], <<o>>) :
                 i \in Ids, n \in Totals, o \in Outcomes}
         \cup {Call("getUpcomingEvents", [limit |-> l], <<o>>) :
                 l \in {Undefined, Num(5)}, o \in Outcomes}
         \cup {Call("exportEvents", [filters |-> f], <<o>>) :
                 f \in ExportFilters, o \in Outcomes}
         \cup {Call("duplicateEvent", [id |-> i], <<o>>) : i \in Ids, o \in Outcomes}
         \cup {Call("bulkCreateEvents", [eventsData |-> Array(Firsts(items))],
                    Seconds(items)) :
                 items \in SeqsUpTo(BulkEventItems, MaxRecords)}
         \cup {Call("bulkCreateEvents", [eventsData |-> NoArray], <<>>)}
         \cup {Call("searchEvents", [searchTerm |-> s, filters |-> f], <<o>>) :
                 s \in SearchTerms, f \in SummaryFilters, o \in Outcomes}
         \cup {Call("getEventsSummary", [filters |-> f], <<o1, o2, o3>>) :
                 f \in SummaryFilters, o1 \in Outcomes, o2 \in SecondaryOutcomes,
                 o3 \in SecondaryOutcomes}
         \cup {Call("getEventsByCategory", [category |-> c], <<o>>) :
                 c \in {Undefined, Str("all"), Str("Service")}, o \in Outcomes}
         \cup {Call("getEventsByDateRange", [startDate |-> s, endDate |-> e], <<o>>) :
                 s \in {Undefined, Str("2024-01-01")}, e \in {Str(""), Str("2024-01-31")},
                 o \in Outcomes}
         \cup {Call("getTodaysEvents", [none |-> Undefined], <<o>>) : o \in Outcomes}

\* The promise of the pending call to `op` settles as `result` says.
Invoke(op, result) ==
  /\ gw.pc = "called"
  /\ gw.op = op
  /\ gw' = [gw EXCEPT !.pc = "settled", !.settle = result.settle,
                      !.env = result.env, !.calls = result.calls,
                      !.download = result.download]
  /\ UNCHANGED <<token, refreshToken, isRefreshing, failedQueue, refreshCall,
                 req, ev>>

GatewayNext ==
  \/ Invoke("getAttendanceRecords",
            getAttendanceRecords(gw.args.filters, gw.outs[1]))
  \/ Invoke("getAttendanceById", getAttendanceById(gw.args.id, gw.outs[1]))
  \/ Invoke("createAttendance",
            createAttendance(gw.args.attendanceData, gw.outs[1]))
  \/ Invoke("updateAttendance",
            updateAttendance(gw.args.id, gw.args.attendanceData, gw.outs[1]))
  \/ Invoke("deleteAttendance", deleteAttendance(gw.args.id, gw.outs[1]))
  \/ Invoke("getAttendanceStats", getAttendanceStats(gw.args.period, gw.outs[1]))
  \/ Invoke("getServiceTypes", getServiceTypes(gw.outs[1]))
  \/ Invoke("getMembersForAttendance", getMembersForAttendance(gw.outs[1]))
  \/ Invoke("generateReport", generateReport(gw.args.filters,
                                             gw.outs[1]))
  \/ Invoke("bulkCreateAttendance",
            bulkCreateAttendance(gw.args.attendanceRecords, gw.outs))
  \/ Invoke("searchAttendance",
            searchAttendance(gw.args.searchTerm, gw.args.filters, gw.outs[1]))
  \/ Invoke("getAttendanceSummary", getAttendanceSummary(gw.args.period, gw.outs))
  \/ Invoke("getEvents", getEvents(gw.args.filters, gw.outs[1]))
  \/ Invoke("getEventById", getEventById(gw.args.id, gw.outs[1]))
  \/ Invoke("createEvent", createEvent(gw.args.eventData, gw.outs[1]))
  \/ Invoke("updateEvent", updateEvent(gw.args.id, gw.args.eventData, gw.outs[1]))
  \/ Invoke("deleteEvent", deleteEvent(gw.args.id, gw.outs[1]))
  \/ Invoke("getEventCategories", getEventCategories(gw.outs[1]))
  \/ Invoke("getEventsStats", getEventsStats(gw.outs[1]))
  \/ Invoke("updateEventAttendance",
            updateEventAttendance(gw.args.id, gw.args.attendanceCount, gw.outs[1]))
  \/ Invoke("getUpcomingEvents", getUpcomingEvents(gw.args.limit, gw.outs[1]))
  \/ Invoke("exportEvents", exportEvents(gw.args.filters, gw.outs[1]))
  \/ Invoke("duplicateEvent", duplicateEvent(gw.args.id, gw.outs[1]))
  \/ Invoke("bulkCreateEvents", bulkCreateEvents(gw.args.eventsData, gw.outs))
  \/ Invoke("searchEvents",
            searchEvents(gw.args.searchTerm, gw.args.filters, gw.outs[1]))
  \/ Invoke("getEventsSummary", getEventsSummary(gw.args.filters, gw.outs))
  \/ Invoke("getEventsByCategory",
            getEventsByCategory(gw.args.category, gw.outs[1]))
  \/ Invoke("getEventsByDateRange",
            getEventsByDateRange(gw.args.startDate, gw.args.endDate, gw.outs[1]))
  \/ Invoke("getTodaysEvents", getTodaysEvents(gw.outs[1]))

GatewaySpec == GatewayInit /\ [][GatewayNext]_vars


\* ------------------------------------------------------------ claims ---
EvSettles(r) == \E i \in 1..Len(ev.settled) : ev.settled[i].req = r
EvSends(r) == \E i \in 1..Len(ev.sent) : ev.sent[i].req = r
SettleKinds == {"refreshOk", "refreshFail", "noRefreshToken"}

\* C1: of N >= 2 requests that get 401 around one refresh (one starts it, the
\* others get their 401 while it is in flight) only the first ever starts a
\* refresh call: a request whose first 401 was queued behind a refresh
\* starts none before it settles, and the one that started it starts one.
C1_OneRefreshForAll ==
  /\ \A r \in DOMAIN req :
       /\ req[r].queuedFirst => req[r].started = 0
       /\ req[r].started <= 1
  /\ \A i \in 1..Len(ev.settled) :
       /\ ev.settled[i].queuedFirst => ev.settled[i].started = 0
       /\ ev.settled[i].started <= 1

\* C2: the queue is drained exactly once per refresh attempt and never
\* partially: the handler that ends an attempt calls processQueue once, and
\* no other handler does; every queued continuation gets the same outcome
\* (resolved with the new token after a success, rejected with the refresh
\* error after a failure); afterwards the queue is empty and no request is
\* left waiting outside it.
C2_QueueDrainedWhole ==
  /\ ev.kind \in SettleKinds => ev.drains = 1 /\ failedQueue = <<>>
  /\ ev.kind \notin SettleKinds => ev.drains = 0 /\ ev.drained = <<>>
  /\ \A i \in 1..Len(ev.drained) :
       IF ev.kind = "refreshOk"
       THEN /\ ev.drained[i].how = "resolve"
            /\ ev.drained[i].tok = token
            /\ EvSends(ev.drained[i].req)
       ELSE /\ ev.drained[i].how = "reject"
            /\ ev.drained[i].err = ev.err
            /\ EvSettles(ev.drained[i].req)
  /\ \A r \in DOMAIN req : req[r].pc = "queued" <=> InSeq(r, failedQueue)

C2_Witness == ev.kind = "refreshFail" /\ Len(ev.drained) >= 2

\* C3: no request is left pending for ever: a request that is waiting on a
\* refresh (it started one, or it is queued behind one) eventually settles,
\* and a queued continuation eventually leaves the queue.
C3_NoRequestPendingForever ==
  \A r \in Reqs :
    (req[r].pc \in {"queued", "refreshing"})
      ~> (req[r].pc = "free" /\ ~InSeq(r, failedQueue))


\* C4: a request whose first 401 starts the refresh (it was never queued),
\* with a refresh that succeeds: that request made exactly one refresh call,
\* the handler resubmits it exactly once, with the new access token as its
\* bearer, and does not settle the caller itself; what the caller finally
\* receives is the outcome of that resubmission.
C4_SingleRequestRefreshAndRetry ==
  /\ (ev.kind = "refreshOk" /\ ~req[ev.req].queuedFirst) =>
       /\ req[ev.req].pc = "inflight"
       /\ req[ev.req].resubs = 1
       /\ req[ev.req].started = 1
       /\ ~EvSettles(ev.req)
       /\ Cardinality({i \in 1..Len(ev.sent) : ev.sent[i].req = ev.req}) = 1
       /\ \A i \in 1..Len(ev.sent) :
            ev.sent[i].req = ev.req => ev.sent[i].hdr = token /\ token # NoTok
  /\ \A i \in 1..Len(ev.settled) :
       LET s == ev.settled[i] IN
         (s.retry /\ ~s.queuedFirst /\ s.resubs >= 1) =>
           /\ s.resubs = 1
           /\ s.started = 1
           /\ s.req = ev.req
           /\ s.val = ev.err
           /\ s.how = (IF ev.err = Response THEN "resolve" ELSE "reject")
           /\ ev.kind \in {"success", "noResponse", "httpError"}

C4_Witness ==
  /\ ev.kind = "success"
  /\ \E i \in 1..Len(ev.settled) :
       /\ ev.settled[i].retry /\ ~ev.settled[i].queuedFirst
       /\ ev.settled[i].resubs = 1
       /\ ev.settled[i].val = Response

\* C5: when the refresh attempt fails (the call is rejected, or its 2xx
\* payload carries no access token) both stored tokens are cleared, logout
\* is broadcast exactly once, every queued request is rejected with the
\* refresh failure, and so is the initiating call, which is not resubmitted.
C5_RefreshFailureLogsOut ==
  ev.kind = "refreshFail" =>
    /\ ev.err \in RefreshErrors \cup {NoRefreshError}
    /\ token = NoTok
    /\ refreshToken = NoTok
    /\ ev.cleared
    /\ ev.logouts = 1
    /\ ev.sent = <<>>
    /\ ev.refreshCalls = <<>>
    /\ req[ev.req].pc = "free"
    /\ \A i \in 1..Len(ev.drained) :
         /\ ev.drained[i].how = "reject"
         /\ req[ev.drained[i].req].pc = "free"
         /\ \E j \in 1..Len(ev.settled) :
              /\ ev.settled[j].req = ev.drained[i].req
              /\ ev.settled[j].how = "reject"
              /\ ev.settled[j].val = ev.err
    /\ \E j \in 1..Len(ev.settled) :
         /\ ev.settled[j].req = ev.req
         /\ ev.settled[j].how = "reject"
         /\ ev.settled[j].val = ev.err
    /\ Len(ev.settled) = Len(ev.drained) + 1

C5_Witness ==
  /\ ev.kind = "refreshFail"
  /\ ev.err = NoRefreshError
  /\ Len(ev.drained) >= 1

\* C6: every request handed to the network, resubmissions included, carries
\* as its bearer exactly the access token stored at that moment, and carries
\* no Authorization header when none is stored; it is sent either way.
C6_BearerIsStoredToken ==
  \A i \in 1..Len(ev.sent) :
    /\ ev.sent[i].stored = token
    /\ ev.sent[i].hdr = ev.sent[i].stored
    /\ req[ev.sent[i].req].pc = "inflight"

C6_Witness ==
  /\ ev.kind = "refreshOk"
  /\ Len(ev.sent) >= 2
  /\ token # NoTok

\* C7: the refresh protocol is entered only on a request's first 401: a
\* handler that queues a request, starts a refresh or takes the
\* no-refresh-token exit does so for a request that was never resubmitted,
\* and no request is resubmitted more than once.
C7_ProtocolOnlyOnFirst401 ==
  /\ ev.kind \in {"enqueue", "refreshStart"} => req[ev.req].resubs = 0
  /\ ev.kind = "noRefreshToken" =>
       \A i \in 1..Len(ev.settled) :
         ev.settled[i].req = ev.req => ev.settled[i].resubs = 0
  /\ \A r \in DOMAIN req : req[r].resubs <= 1
  /\ \A i \in 1..Len(ev.settled) : ev.settled[i].resubs <= 1

\* C8: the transport core clears the tokens or broadcasts logout only in a
\* handler that ends a failed refresh or finds no refresh token; and the
\* handler of a 401 on an already resubmitted request, like that of any
\* other status, of a network failure or of a failing resubmission, does
\* neither.
C8_LogoutOnlyOnRefreshFailure ==
  /\ (ev.cleared \/ ev.logouts > 0) => ev.kind \in {"refreshFail", "noRefreshToken"}
  /\ \A i \in 1..Len(ev.settled) :
       (ev.settled[i].req = ev.req /\ ev.settled[i].resubs >= 1
          /\ ev.kind \in {"noResponse", "httpError", "noRefreshToken"}) =>
         ~ev.cleared /\ ev.logouts = 0
  /\ (ev.kind \in {"enqueue", "refreshStart"} /\ req[ev.req].resubs >= 1) =>
       ~ev.cleared /\ ev.logouts = 0

\* C9: when no response was received the handler emits exactly one
\* notification, about a timeout or about connectivity, sends nothing again,
\* starts no refresh, and rejects with the original error.
C9_NetworkFailure ==
  ev.kind = "noResponse" =>
    /\ Len(ev.toasts) = 1
    /\ ev.toasts[1].category =
         (IF ev.err.code = "ECONNABORTED" THEN "timeout" ELSE "network")
    /\ ev.sent = <<>>
    /\ ev.refreshCalls = <<>>
    /\ req[ev.req].pc = "free"
    /\ Len(ev.settled) = 1
    /\ ev.settled[1].req = ev.req
    /\ ev.settled[1].how = "reject"
    /\ ev.settled[1].val = ev.err
    /\ ev.err.type = "net"

C9_Witness ==
  /\ ev.kind = "noResponse"
  /\ ev.err.code = "ERR_OTHER"
  /\ isRefreshing

\* The category the specification names for a status (section 4.1, item 3,
\* and section 7 (d), (e)).
CategoryOf(status) ==
  CASE status = 400 -> "badRequest"
    [] status = 403 -> "forbidden"
    [] status = 404 -> "notFound"
    [] status = 409 -> "conflict"
    [] status = 422 -> "validation"
    [] status = 429 -> "rateLimited"
    [] status = 500 -> "serverError"
    [] status = 502 -> "gatewayError"
    [] status = 503 -> "serviceUnavailable"
    [] status >= 400 /\ status < 500 /\ status \notin {400, 403, 404, 409, 422, 429} ->
         "clientError"
    [] OTHER -> "serverError"

\* C10: a response with an HTTP error status (4xx, 5xx) that does not enter
\* the refresh protocol produces exactly one notification, of the category
\* of its status, is not sent again, and is rejected with the original error.
C10_StatusNotification ==
  (ev.kind = "httpError" /\ ev.err.status >= 400) =>
    /\ Len(ev.toasts) = 1
    /\ ev.toasts[1].category = CategoryOf(ev.err.status)
    /\ ev.sent = <<>>
    /\ ev.refreshCalls = <<>>
    /\ req[ev.req].pc = "free"
    /\ Len(ev.settled) = 1
    /\ ev.settled[1].req = ev.req
    /\ ev.settled[1].how = "reject"
    /\ ev.settled[1].val = ev.err
    /\ ev.err.type = "http"

C10_Witness ==
  /\ ev.kind = "httpError"
  /\ ev.err.status = 401
  /\ Len(ev.toasts) = 1

\* C11: every handler of the transport core that rejects a caller's promise
\* (after a network failure, in the refresh protocol - refresh failed, no
\* refresh token stored, queued behind a refresh that failed - or on an HTTP
\* error status) has emitted at least one notification in the same task.
C11_EveryRejectionNotified ==
  (\E i \in 1..Len(ev.settled) : ev.settled[i].how = "reject") =>
    \/ Len(ev.toasts) >= 1
    \/ ev.kind = "httpError" /\ ev.err.status < 400

\* C12: every call of an operation of attendanceAPI or eventsAPI settles by
\* resolving with a Result Envelope, whatever the arguments and however the
\* transport core settles the network calls it issues; it never rejects.
C12_GatewayNeverRejects ==
  gw.pc = "settled" =>
    /\ gw.settle = "resolve"
    /\ gw.env.success \in BOOLEAN
    /\ gw.env.success \/ gw.env # NoEnvelope

C12_Witness ==
  /\ gw.pc = "settled"
  /\ gw.op = "updateEvent"
  /\ gw.outs[1].val = NoRefreshError
  /\ Len(gw.calls) = 1
  /\ gw.settle = "resolve"
  /\ ~gw.env.success

\* A non-empty human-readable message.
NonEmptyMessage(message) == message.t = "string" /\ message.s # ""

\* C13: every envelope with success = false that a gateway operation returns
\* (and every one a bulk create reports for a record) carries a non-empty
\* message.
C13_FailureCarriesMessage ==
  (gw.pc = "settled" /\ gw.settle = "resolve" /\ ~gw.env.success) =>
    /\ NonEmptyMessage(gw.env.message)
    /\ gw.env.data.type = "bulk" =>
         \A i \in 1..Len(gw.env.data.results) :
           ~gw.env.data.results[i].env.success =>
             NonEmptyMessage(gw.env.data.results[i].env.message)

C13_Witness ==
  /\ gw.pc = "settled"
  /\ gw.op = "getEvents"
  /\ gw.outs[1].val = HttpError(500)
  /\ gw.outs[1].body.kind = "object"
  /\ gw.outs[1].body.message = Str("")
  /\ ~gw.env.success
  /\ gw.env.message = Str("Failed to fetch events")

\* A totalAttendance that is a non-negative number (a numeric string counts).
IsNonNegativeNumber(v) ==
  \/ v.t = "number" /\ v.n >= 0
  \/ v.t = "string" /\ v.s # "" /\ StringToNumber(v.s).t = "number"
       /\ StringToNumber(v.s).n >= 0

\* C14: createAttendance and updateAttendance issue a network call only for a
\* record with a date, a serviceType and a totalAttendance that is a
\* non-negative number; for any other record they issue none and return
\* success = false with a message, which for a bad total is the
\* non-negative-number message.
C14_NetworkCallOnlyForValidRecord ==
  (gw.pc = "settled" /\ gw.op \in {"createAttendance", "updateAttendance"}) =>
    LET d == gw.args.attendanceData
        complete == d.t = "object" /\ Truthy(d.date) /\ Truthy(d.serviceType)
    IN ~(complete /\ IsNonNegativeNumber(d.totalAttendance)) =>
         /\ gw.calls = <<>>
         /\ ~gw.env.success
         /\ NonEmptyMessage(gw.env.message)
         /\ (complete /\ (gw.op = "updateAttendance" => Truthy(gw.args.id))) =>
              gw.env.message =
                Str("Total attendance must be a non-negative number")

\* Whether the create of record i of the pending bulk call succeeds: the
\* record passes the local validation and the backend accepts it.
CreateSucceeds(i) ==
  /\ gw.outs[i] = OkOutcome
  /\ \/ gw.op = "bulkCreateAttendance"
        /\ gw.args.attendanceRecords.items[i] = ValidAttendance
     \/ gw.op = "bulkCreateEvents" /\ gw.args.eventsData.items[i] = ValidEvent
BulkOps == {"bulkCreateAttendance", "bulkCreateEvents"}
BulkSettled == gw.pc = "settled" /\ gw.op \in BulkOps /\ Len(gw.outs) > 0

\* C15: a bulk create of a non-empty sequence of records reports successful
\* = the number of records whose create succeeded, failed = the number whose
\* create failed and total = the number of records, so that successful +
\* failed = total, and success is true exactly when failed is 0.
C15_BulkCounts ==
  BulkSettled =>
    LET d == gw.env.data
        n == Len(gw.outs)
    IN /\ d.type = "bulk"
       /\ d.successful = Cardinality({i \in 1..n : CreateSucceeds(i)})
       /\ d.failed = Cardinality({i \in 1..n : ~CreateSucceeds(i)})
       /\ d.total = n
       /\ d.successful + d.failed = d.total
       /\ gw.env.success <=> (d.failed = 0)

C15_Witness ==
  /\ BulkSettled
  /\ gw.op = "bulkCreateAttendance"
  /\ Len(gw.outs) = 5
  /\ Cardinality({i \in 1..5 :
                    gw.args.attendanceRecords.items[i] = InvalidAttendance}) = 2
  /\ \A i \in 1..5 : gw.outs[i] = OkOutcome
  /\ gw.env.data.successful = 3
  /\ gw.env.data.failed = 2
  /\ gw.env.data.total = 5
  /\ ~gw.env.success

\* What the create of record i of the pending bulk call gives when it is
\* made on its own.
CreateAlone(i) ==
  IF gw.op = "bulkCreateAttendance"
    THEN createAttendance(gw.args.attendanceRecords.items[i], gw.outs[i])
    ELSE createEvent(gw.args.eventsData.items[i], gw.outs[i])

\* C16: a bulk create makes one create per record, each independent of the
\* others: the outcome reported for a record is the outcome of its own
\* create, whatever happened to the records before and after it, and every
\* record that passes the local validation has its network call issued.
C16_BulkIsPerRecord ==
  BulkSettled =>
    LET results == gw.env.data.results
        n == Len(gw.outs)
    IN /\ gw.env.data.type = "bulk"
       /\ Len(results) = n
       /\ \A i \in 1..n : results[i] = CreateAlone(i)
       /\ Len(gw.calls) = Cardinality({i \in 1..n : CreateAlone(i).calls # <<>>})

C16_Witness ==
  /\ BulkSettled
  /\ gw.op = "bulkCreateEvents"
  /\ Len(gw.outs) = 3
  /\ gw.args.eventsData.items[1] = InvalidEvent
  /\ gw.args.eventsData.items[2] = ValidEvent
  /\ gw.outs[2] = FailOutcome
  /\ ~gw.env.data.results[1].env.success
  /\ ~gw.env.data.results[2].env.success
  /\ gw.env.data.results[3].env.success
  /\ Len(gw.calls) = 2

\* The value the caller supplied for the filter a query parameter is named
\* after.
Supplied(filters, key) ==
  CASE key = "page" -> filters.page
    [] key = "limit" -> filters.limit
    [] key = "startDate" -> filters.startDate
    [] key = "endDate" -> filters.endDate
    [] key = "serviceType" -> filters.serviceType
    [] key = "search" -> filters.search
    [] key = "status" -> filters.status
    [] key = "category" -> filters.category
    [] key = "upcoming" -> filters.upcoming
    [] key = "sortBy" -> filters.sortBy
    [] key = "sortOrder" -> filters.sortOrder
    [] OTHER -> Undefined
SentinelFilters == {"status", "category", "serviceType"}

\* C17: every parameter in the query of getEvents and getAttendanceRecords
\* carries a value the caller supplied for that filter, which is neither
\* absent nor empty nor, for status, category and serviceType, the
\* sentinel 'all'.
C17_QueryOmitsAbsentAndAll ==
  (gw.pc = "settled" /\ gw.op \in {"getEvents", "getAttendanceRecords"}) =>
    \A c \in 1..Len(gw.calls) :
      \A i \in 1..Len(gw.calls[c].query) :
        LET key == gw.calls[c].query[i].key
            v == Supplied(gw.args.filters, key)
        IN /\ v \notin {Undefined, Null, Str("")}
           /\ key \in SentinelFilters => v # Str("all")
           /\ gw.calls[c].query[i].value = ToString(v)

C17_Witness ==
  /\ gw.pc = "settled"
  /\ gw.op = "getEvents"
  /\ gw.args.filters.status = Str("all")
  /\ gw.args.filters.category = Str("all")
  /\ gw.args.filters.page = Num(2)
  /\ Len(gw.calls) = 1
  /\ gw.calls[1].query = <<[key |-> "page", value |-> "2"]>>

ExportOps == {"generateReport", "exportEvents"}

\* C18: generateReport and exportEvents with format 'csv' trigger a download
\* and return success with data of type 'download' and none of the response
\* data; with format 'json' they trigger no download and return the data
\* and the count of the response.  (Either fails, without a download, when
\* its call is rejected.)
C18_ExportModeByFormat ==
  (gw.pc = "settled" /\ gw.op \in ExportOps /\ gw.args.filters.t = "object") =>
    LET out == gw.outs[1]
    IN /\ gw.args.filters.format = Str("csv") =>
            IF out.val = Response
              THEN /\ gw.download
                   /\ gw.env.success
                   /\ gw.env.data.type = "download"
                   /\ gw.env.data.value # out.body.data
                   /\ gw.env.count = Undefined
              ELSE ~gw.download /\ ~gw.env.success
       /\ gw.args.filters.format = Str("json") =>
            /\ ~gw.download
            /\ (out.val = Response /\ out.body.kind = "object") =>
                 /\ gw.env.success
                 /\ gw.env.data = Payload(out.body.data)
                 /\ gw.env.count = out.body.count
            /\ out.val # Response => ~gw.env.success

C18_Witness ==
  /\ gw.pc = "settled"
  /\ gw.op = "generateReport"
  /\ gw.args.filters.format = Str("csv")
  /\ gw.outs[1] = OkOutcome
  /\ gw.download
  /\ gw.env.data.type = "download"

\* The primary call of the pending summary operation, made on its own.
PrimaryAlone ==
  IF gw.op = "getAttendanceSummary"
    THEN getAttendanceStats(gw.args.period, gw.outs[1])
    ELSE getEventsStats(gw.outs[1])
SummaryOps == {"getAttendanceSummary", "getEventsSummary"}

\* C19: when the stats call of getAttendanceSummary or getEventsSummary
\* fails, the summary returns success = false with the message of that
\* failure and issues no call but those of the stats operation.
C19_SummaryStopsAtPrimaryFailure ==
  (gw.pc = "settled" /\ gw.op \in SummaryOps /\ ~PrimaryAlone.env.success) =>
    /\ ~gw.env.success
    /\ gw.env.message = PrimaryAlone.env.message
    /\ gw.calls = PrimaryAlone.calls

C19_Witness ==
  /\ gw.pc = "settled"
  /\ gw.op = "getEventsSummary"
  /\ gw.outs[1].val = NetError("ERR_NETWORK")
  /\ gw.outs[2] = OkOutcome
  /\ gw.outs[3] = OkOutcome
  /\ ~gw.env.success
  /\ Len(gw.calls) = 1

\* C20: at most one refresh call is in flight: at most one handler is
\* suspended at the refresh call, it is the one whose call is recorded, the
\* flag is set whenever a refresh call is in flight, and the handler that
\* starts the call has set the flag by the end of its own task.
C20_AtMostOneRefreshInFlight ==
  /\ Cardinality({r \in DOMAIN req : req[r].pc = "refreshing"}) <= 1
  /\ \A r \in DOMAIN req : req[r].pc = "refreshing" <=> refreshCall.by = r
  /\ refreshCall # NoCall => isRefreshing
  /\ ev.kind = "refreshStart" =>
       isRefreshing /\ Len(ev.refreshCalls) = 1 /\ refreshCall.by = ev.req

C20_Witness ==
  /\ ev.kind = "enqueue"
  /\ refreshCall # NoCall
  /\ refreshCall.by # ev.req
  /\ isRefreshing
  /\ Cardinality({r \in DOMAIN req : req[r].pc = "queued"}) = 2

\* C21: every refresh attempt ends with the flag cleared: the handler that
\* ends an attempt (refresh succeeded, refresh failed, no refresh token
\* stored) leaves isRefreshing false, the flag is set only while a refresh
\* call is in flight, and a set flag is eventually cleared.
C21_FlagAlwaysCleared ==
  /\ [](ev.kind \in SettleKinds => ~isRefreshing)
  /\ [](isRefreshing => refreshCall # NoCall)
  /\ (isRefreshing ~> ~isRefreshing)

C21_Witness ==
  /\ ev.kind = "refreshOk"
  /\ ~isRefreshing
  /\ req[ev.req].pc = "inflight"
  /\ Len(ev.drained) = 1
  /\ req[ev.drained[1].req].pc = "inflight"

\* C22: a first 401 (the request was never resubmitted) that arrives while
\* no refresh is in flight and no refresh token is stored fails at once: no
\* refresh call is issued, nothing is sent, both stored tokens are cleared,
\* logout is broadcast once, and the caller is rejected in the same task.
C22_NoRefreshTokenFailsImmediately ==
  (/\ ev.kind = "noRefreshToken"
   /\ \A i \in 1..Len(ev.settled) :
        ev.settled[i].req = ev.req => ev.settled[i].resubs = 0) =>
    /\ ev.refreshCalls = <<>>
    /\ refreshCall = NoCall
    /\ ev.sent = <<>>
    /\ req[ev.req].pc = "free"
    /\ token = NoTok
    /\ refreshToken = NoTok
    /\ ev.cleared
    /\ ev.logouts = 1
    /\ ev.settled = <<Settlement(ev.req, "reject", NoRefreshError,
                                 [NewConfig EXCEPT !.retry = TRUE])>>
    /\ ~isRefreshing

C22_Witness ==
  /\ ev.kind = "noRefreshToken"
  /\ Len(ev.settled) = 1
  /\ ev.settled[1].resubs = 0
  /\ ev.settled[1].how = "reject"
  /\ \E r \in Reqs : req[r].pc = "inflight"

\* C23: the handler of a successful refresh stores the access token the
\* refresh response carried, leaves in storage the refresh token the
\* refresh call was issued with, resolves every queued continuation, in
\* queue order, with that same access token, leaves the queue empty, and
\* resubmits the initiating request in the same task.
C23_RefreshSuccessPersists ==
  [][ev'.kind = "refreshOk" =>
       /\ ev'.newAccessToken \in AccessTokens
       /\ token' = ev'.newAccessToken
       /\ refreshToken' = refreshCall.bearer
       /\ refreshToken' \in RefreshTokens
       /\ ev'.drains = 1
       /\ failedQueue' = <<>>
       /\ Len(ev'.drained) = Len(failedQueue)
       /\ \A i \in 1..Len(failedQueue) :
            /\ ev'.drained[i].req = failedQueue[i]
            /\ ev'.drained[i].how = "resolve"
            /\ ev'.drained[i].tok = ev'.newAccessToken
       /\ ev'.req = refreshCall.by
       /\ req'[ev'.req].pc = "inflight"
       /\ \E i \in 1..Len(ev'.sent) :
            ev'.sent[i].req = ev'.req /\ ev'.sent[i].hdr = ev'.newAccessToken
       /\ ~ev'.cleared
       /\ ev'.logouts = 0]_vars

C23_Witness ==
  /\ ev.kind = "refreshOk"
  /\ ev.newAccessToken = <<"access", 2>>
  /\ token = <<"access", 2>>
  /\ refreshToken \in RefreshTokens
  /\ Len(ev.drained) = 1
  /\ ev.drained[1].tok = token

\* C24: queued requests are settled in the order they were enqueued: a 401
\* that is queued goes to the tail of the queue, and the handler that ends
\* the refresh resolves or rejects the queued continuations from the head of
\* the queue to its tail, so that their resubmissions (after a success) and
\* the rejections of their callers (after a failure) happen in that order.
C24_QueueSettledInEnqueueOrder ==
  [][/\ ev'.kind = "enqueue" => failedQueue' = Append(failedQueue, ev'.req)
     /\ ev'.kind \in SettleKinds =>
          /\ Len(ev'.drained) = Len(failedQueue)
          /\ \A i \in 1..Len(failedQueue) : ev'.drained[i].req = failedQueue[i]
          /\ IF ev'.kind = "refreshOk"
             THEN /\ Len(ev'.sent) = Len(failedQueue) + 1
                  /\ \A i \in 1..Len(failedQueue) :
                       ev'.sent[i + 1].req = failedQueue[i]
             ELSE /\ Len(ev'.settled) = Len(failedQueue) + 1
                  /\ \A i \in 1..Len(failedQueue) :
                       /\ ev'.settled[i].req = failedQueue[i]
                       /\ ev'.settled[i].how = "reject"]_vars

C24_Witness ==
  /\ ev.kind = "refreshFail"
  /\ Len(ev.drained) = 2
  /\ ev.drained[1].req > ev.drained[2].req
  /\ ev.settled[1].req = ev.drained[1].req
  /\ ev.settled[2].req = ev.drained[2].req

\* C25: the refresh call carries the stored refresh token, never the access
\* token, as its bearer; and the handler of a failed refresh call, a 401
\* included, queues nothing, starts no other refresh call and sends nothing
\* again: it ends the attempt.
C25_RefreshCallDedicated ==
  /\ refreshCall # NoCall =>
       refreshCall.bearer \in RefreshTokens /\ refreshCall.bearer \notin AccessTokens
  /\ ev.kind = "refreshStart" =>
       /\ ev.refreshCalls = <<refreshToken>>
       /\ refreshCall.bearer = refreshToken
       /\ refreshCall.bearer # token
  /\ ev.kind = "refreshFail" =>
       /\ failedQueue = <<>>
       /\ ev.refreshCalls = <<>>
       /\ refreshCall = NoCall
       /\ ~isRefreshing
       /\ ev.sent = <<>>
       /\ \A r \in DOMAIN req : req[r].pc \notin {"queued", "refreshing"}
       /\ req[ev.req].pc = "free"

C25_Witness ==
  /\ ev.kind = "refreshFail"
  /\ ev.err = HttpError(401)
  /\ Len(ev.drained) >= 1
  /\ failedQueue = <<>>
  /\ refreshCall = NoCall

\* C26: whenever isRefreshing is false the queue is empty and no request is
\* waiting in it; a continuation is enqueued only while the flag is set; and
\* the handler that clears the flag has drained the queue in the same task.
C26_QueueEmptyWhenNotRefreshing ==
  /\ ~isRefreshing =>
       /\ failedQueue = <<>>
       /\ \A r \in DOMAIN req : req[r].pc # "queued"
  /\ ev.kind = "enqueue" => isRefreshing /\ InSeq(ev.req, failedQueue)
  /\ ev.kind \in SettleKinds => ~isRefreshing /\ ev.drains = 1

C26_Witness ==
  /\ ev.kind = "refreshOk"
  /\ ~isRefreshing
  /\ failedQueue = <<>>
  /\ Len(ev.drained) >= 1
  /\ \A i \in 1..Len(ev.drained) : req[ev.drained[i].req].pc = "inflight"

\* No request has started more than one refresh call, while it is pending
\* or when it settles.
AtMostOneRefreshStarted ==
  /\ \A r \in DOMAIN req : req[r].started <= 1
  /\ \A i \in 1..Len(ev.settled) : ev.settled[i].started <= 1

\* C27: no request starts more than one refresh call during its lifetime
\* (so there are never more refresh calls than requests), and every request
\* handed to the network settles after finitely many resubmissions.
C27_OneRefreshPerRequestAndSettles ==
  /\ []AtMostOneRefreshStarted
  /\ \A r \in Reqs : (req[r].pc = "inflight") ~> (req[r].pc = "free")

\* C28: after a successful refresh the initiating request is back on the
\* network with the flag already cleared; and when its resubmission fails,
\* the handler of that failure rejects that caller only: it is the handler
\* of a network failure or of an HTTP status, it drains and rejects nothing
\* else, leaves every other request, the queue, the flag and both stored
\* tokens as they were, and broadcasts no logout.
C28_ResubmissionFailureIsLocal ==
  [][/\ ev'.kind = "refreshOk" =>
          ~isRefreshing' /\ req'[ev'.req].pc = "inflight"
     /\ \A r \in Reqs :
          (/\ req[r].pc = "inflight"
           /\ req[r].started >= 1
           /\ req'[r].pc = "free"
           /\ ev'.req = r
           /\ ev'.err # Response) =>
            /\ ev'.kind \in {"noResponse", "httpError"}
            /\ ev'.settled = <<Settlement(r, "reject", ev'.err, req[r])>>
            /\ ev'.drains = 0
            /\ ev'.drained = <<>>
            /\ ~ev'.cleared
            /\ ev'.logouts = 0
            /\ ev'.refreshCalls = <<>>
            /\ token' = token
            /\ refreshToken' = refreshToken
            /\ isRefreshing' = isRefreshing
            /\ failedQueue' = failedQueue
            /\ refreshCall' = refreshCall
            /\ \A q \in DOMAIN req : q # r => req'[q] = req[q]]_vars

C28_Witness ==
  /\ ev.kind = "httpError"
  /\ ev.err = HttpError(401)
  /\ ev.settled[1].started = 1
  /\ ev.settled[1].resubs = 1
  /\ ~ev.settled[1].queuedFirst
  /\ token # NoTok
  /\ refreshToken # NoTok
  /\ \E q \in Reqs : req[q].pc = "inflight" /\ req[q].queuedFirst /\ req[q].resubs = 1

\* C29: the handler of a network failure, or of an HTTP error that does not
\* enter the refresh protocol, leaves isRefreshing, failedQueue, the refresh
\* call in flight and both stored tokens unchanged, issues no refresh call
\* and drains nothing, also while a refresh is in flight; and a request
\* leaves the queue only in the handler that ends the refresh.
C29_PlainErrorsLeaveProtocolAlone ==
  [][/\ ev'.kind \in {"noResponse", "httpError"} =>
          /\ isRefreshing' = isRefreshing
          /\ failedQueue' = failedQueue
          /\ refreshCall' = refreshCall
          /\ token' = token
          /\ refreshToken' = refreshToken
          /\ ev'.refreshCalls = <<>>
          /\ ev'.drains = 0
          /\ ev'.sent = <<>>
          /\ \A q \in DOMAIN req : q # ev'.req => req'[q] = req[q]
     /\ (\E q \in DOMAIN req : InSeq(q, failedQueue) /\ ~InSeq(q, failedQueue')) =>
          /\ ev'.kind \in {"refreshOk", "refreshFail"}
          /\ refreshCall # NoCall
          /\ refreshCall' = NoCall]_vars

C29_Witness ==
  /\ ev.kind \in {"noResponse", "httpError"}
  /\ ev.err \in {NetError("ERR_NETWORK"), HttpError(500)}
  /\ isRefreshing
  /\ refreshCall # NoCall
  /\ Len(failedQueue) = 1
  /\ token # NoTok

\* C30: logout is permanent: from a state in which both stored tokens are
\* absent (as tokenManager.clearTokens leaves them), no step other than
\* tokenManager.setTokens puts a token back into storage; in particular the
\* completion of a refresh call that was in flight does not.
C30_LogoutIsPermanent ==
  [][(/\ token = NoTok
      /\ refreshToken = NoTok
      /\ ev'.kind # "setTokens") =>
       /\ token' = NoTok
       /\ refreshToken' = NoTok]_vars

=============================================================================
